---- MODULE Spec2Model ----
(***************************************************************************)
(* Model of the Figma plugin "select-unused-variables".                    *)
(*                                                                         *)
(* The repository holds several near-duplicate builds of the plugin main   *)
(* thread.  Each build's message handler is modelled as its own action:    *)
(*   root      src/code.ts (TypeScript part, lines 1-872)                  *)
(*   sel_js    src/select-unused-variables/code.js                         *)
(*   sel_ts    src/select-unused-variables/code.ts                         *)
(*   part_000  src/unnamed/part_000                                        *)
(* The host (Figma) owns the variable store, the style registry and the    *)
(* document tree; they are the state the handlers read and mutate.         *)
(***************************************************************************)
EXTENDS Integers, Sequences, FiniteSets, TLC

(***************************************************************************)
(* Bounds                                                                  *)
(***************************************************************************)
NumVars == 3

MaxTargets == 3

NumBound == 2

MaxReports == 1

VarNums == 1..NumVars

Modes == {"m1"}

CollectionIds == {"c1", "c2"}

TestCollectionId == "ctest"

(***************************************************************************)
(* Variable ids.  The host hands out ids in two textual forms: the raw     *)
(* form "n" and the prefixed form "VariableID:n".                          *)
(* An id is modelled by its number and by how many times the prefix leads. *)
(***************************************************************************)
RawId(n) == [pfx |-> 0, n |-> n]

PrefixedId(n) == [pfx |-> 1, n |-> n]

\* id.replace(/^VariableID:/, ''): one leading prefix removed, if there is one
StripPrefix(id) == IF id.pfx > 0 THEN [id EXCEPT !.pfx = @ - 1] ELSE id

\* `VariableID:${id}`
AddPrefix(id) == [id EXCEPT !.pfx = @ + 1]

NoId == [pfx |-> 0, n |-> 0]

AllIds == {RawId(n) : n \in VarNums} \cup {PrefixedId(n) : n \in VarNums}

(***************************************************************************)
(* Values: a literal, or an alias {type: 'VARIABLE_ALIAS', id}.            *)
(***************************************************************************)
Literal == [type |-> "LITERAL", id |-> NoId]

Alias(id) == [type |-> "VARIABLE_ALIAS", id |-> id]

\* a binding of the non-alias kind: {type: 'VARIABLE', id}
Direct(id) == [type |-> "VARIABLE", id |-> id]

\* the collection a freshly drawn variable n belongs to
CollectionOf(n) == IF n % 2 = 1 THEN "c1" ELSE "c2"

\* the resolvedType a freshly drawn variable n has
TypeOf(n) == IF n <= 2 THEN "COLOR" ELSE "FLOAT"

\* the display name of a collection
CollectionName(c) == IF c = "c1" THEN "Colors"
                     ELSE IF c = "c2" THEN "Spacing"
                     ELSE IF c = TestCollectionId THEN "Test Variables"
                     ELSE ""

VARIABLES
  store,       \* figma.variables.getLocalVariables(): sequence of variables
  collections, \* figma.variables.getLocalVariableCollections(): set of ids
  nodes,       \* the scene nodes of the document, in findAll() order
  styles,      \* the style registry: set of styles
  host,        \* how the host's variable.remove() behaves per variable number
  req,         \* the request the last handler ran on
  usage,       \* the usage set the last handler computed
  out,         \* the last message posted to the UI
  log,         \* the last delete handler's record: the ids remove() was called
               \* on and the ids it counted as deleted, in order
  posted,      \* every message the last search handler posted to the UI, in order
  readable,    \* does figma.variables.getLocalVariables() answer (or throw)?
  variableCache, \* the variableCache map of the sel_ts build
  now,         \* Date.now(), in minutes
  ui,          \* the UI page: its start button and collection checkboxes
  inbox,       \* messages the UI posted that the plugin has not dispatched yet
  running,     \* the start-search handlers that began and have not returned
  proc         \* the handler that is between two of its steps: where it is and
               \* what its local variables hold

vars == <<store, collections, nodes, styles, host, req, usage, out, log,
          posted, readable, variableCache, now, ui, inbox, running, proc>>

(***************************************************************************)
(* Host capabilities                                                       *)
(***************************************************************************)
SeqRange(s) == {s[i] : i \in DOMAIN s}

\* figma.variables.getVariableById(id) !== null
VariableExists(id) == \E i \in DOMAIN store : store[i].id = id

\* figma.variables.getVariableById(id)
GetVariableById(id) == store[CHOOSE i \in DOMAIN store : store[i].id = id]

\* collection.variableIds
VariableIdsOf(c) == {store[i].id : i \in {j \in DOMAIN store : store[j].variableCollectionId = c}}

\* figma.getStyleById(styleId).boundVariables, flattened to its bindings
StyleBindings(styleId) == UNION {s.boundVariables : s \in {t \in styles : t.id = styleId}}

\* figma.getLocalTextStyles(): the text styles of the registry
GetLocalTextStyles == {s \in styles : s.type = "TEXT"}

\* figma.root.children
Pages == <<1, 2>>

\* page.children: the top-level nodes of a page, in document order
PageChildren(page) == LET OnPage(nd) == nd.page = page IN SelectSeq(nodes, OnPage)

\* a list of nodes followed by all their descendants, depth first
RECURSIVE Descendants(_)
Descendants(list) ==
  IF list = <<>> THEN <<>>
  ELSE <<Head(list)>> \o Descendants(Head(list).children) \o Descendants(Tail(list))

\* page.findAll(): every node below the page, in document order
FindAll(page) == Descendants(PageChildren(page))

\* What reading a node does.  node.fault = "none": every read succeeds.
\* "property": reading the node's bindings throws, its name, id and type are
\* readable.  "node": every read of the node throws (the host does this for a
\* node that was removed from the document).
ReadThrows(nd) == nd.fault = "node"

BindingsThrow(nd) == nd.fault # "none"

\* the ids of the bindings b with b.type === 'VARIABLE_ALIAS' && b.id
AliasIds(bindings) == {b.id : b \in {x \in bindings : x.type = "VARIABLE_ALIAS"}}

(***************************************************************************)
(* A request's `collections` field: absent (undefined) or an array of ids. *)
(***************************************************************************)
Absent == [given |-> FALSE, ids |-> {}]

Given(ids) == [given |-> TRUE, ids |-> ids]

\* FilterOptions {types, collections, modes}: three sets of strings
FilterOptions(types, colls, modes) == [types |-> types, collections |-> colls, modes |-> modes]

NoRequest == [handler |-> "none", type |-> "none", collections |-> Absent, targets |-> <<>>,
              options |-> FilterOptions({}, {}, {})]

NoLog == [attempted |-> <<>>, deletedIds |-> <<>>]

NoMessage == [type |-> "none", error |-> FALSE, variables |-> <<>>,
              totalVariables |-> 0, success |-> FALSE, nSuccess |-> 0, nErrors |-> 0]

\* {type: 'complete', variables, stats: {totalVariables}}
Complete(variables, total) == [NoMessage EXCEPT !.type = "complete", !.variables = variables,
                                                !.totalVariables = total]

\* {type: 'complete', error}
CompleteError == [NoMessage EXCEPT !.type = "complete", !.error = TRUE]

\* the ids of a list of variables, in order
IdsOf(variables) == [i \in DOMAIN variables |-> variables[i].id]

\* the variableCache of a plugin that just started: no entry
NoCache == [n \in VarNums |-> [cached |-> FALSE, lastCheck |-> 0, isUsed |-> FALSE]]

\* no handler is between two of its steps
NoProc == [pc |-> "idle"]

\* the UI before the collections arrived: nothing checked, start button disabled
NoUi == [checked |-> {}, disabled |-> TRUE]

\* a plugin that just started, in a file whose variable store answers
Started ==
  /\ posted = <<>>
  /\ readable = TRUE
  /\ variableCache = NoCache
  /\ now = 0
  /\ ui = NoUi
  /\ inbox = <<>>
  /\ running = <<>>
  /\ proc = NoProc

\* the handler at work touches neither the variable cache nor the clock, and the
\* UI and the message queue stay as they are meanwhile
Idle == UNCHANGED <<readable, variableCache, now, ui, inbox, running, proc>>

\* a handler whose messages are not followed
Silent == UNCHANGED posted

(***************************************************************************)
(* root build: src/code.ts                                                 *)
(***************************************************************************)
\* getAllVariables(selectedCollections): the variables in scope
getAllVariables(selected) ==
  LET InScope(v) == selected.ids = {} \/ v.variableCollectionId \in selected.ids
  IN SelectSeq(store, InScope)

\* processNode with the b.type === 'VARIABLE_ALIAS' test dropped
processNode_anyType(nd) ==
  {id \in {b.id : b \in nd.boundVariables} : VariableExists(id)}
    \cup UNION {AliasIds(StyleBindings(sid)) : sid \in nd.styles}

\* what processBatch adds to usedIds for one node
processNode(nd) ==
  {id \in AliasIds(nd.boundVariables) : VariableExists(id)}
    \cup UNION {AliasIds(StyleBindings(sid)) : sid \in nd.styles}

\* processBatch(nodes, stats): the ids bound on a batch of nodes.  A node whose
\* bindings cannot be read lands in the catch of its iteration and adds nothing.
processBatch(batch) ==
  UNION {processNode(batch[i]) : i \in {j \in DOMAIN batch : ~BindingsThrow(batch[j])}}

\* does processBatch reject?  The catch of an iteration reads node.name for its
\* log line before `continue`: a node no read of which succeeds throws again there.
processBatchThrows(batch) == \E i \in DOMAIN batch : ReadThrows(batch[i])

\* usedVariableIds after every page's batches were merged
usedVariableIds == UNION {processBatch(FindAll(Pages[p])) : p \in DOMAIN Pages}

\* does findUnusedVariables throw?  getAllVariables rethrows when the store does
\* not answer; a rejected batch rejects the Promise.all of its page; the outer
\* catch rethrows either.
findUnusedVariablesThrows(selected) ==
  \/ ~readable
  \/ /\ Len(getAllVariables(selected)) # 0
     /\ \E p \in DOMAIN Pages : processBatchThrows(FindAll(Pages[p]))

\* a {type: 'progress'} message
Progress == [NoMessage EXCEPT !.type = "progress"]

\* the progress messages of the pages up to page number `last`: one for every
\* batch, and a page with nodes is one batch
RECURSIVE batchProgress(_)
batchProgress(last) ==
  IF last = 0 THEN <<>>
  ELSE batchProgress(last - 1)
         \o (IF FindAll(Pages[last]) = <<>> THEN <<>> ELSE <<Progress>>)

\* the pages findUnusedVariables finished before a batch rejected
PagesDone ==
  IF \E p \in DOMAIN Pages : processBatchThrows(FindAll(Pages[p]))
  THEN (CHOOSE p \in DOMAIN Pages :
          /\ processBatchThrows(FindAll(Pages[p]))
          /\ \A q \in 1..(p - 1) : ~processBatchThrows(FindAll(Pages[q]))) - 1
  ELSE Len(Pages)

\* every message start-search of the root build posts, in order: the progress
\* messages of findUnusedVariables, then the complete message of the handler's
\* try or of its catch
searchPostsRoot(c, answer) ==
  IF ~readable THEN <<Progress, CompleteError>>
  ELSE IF Len(getAllVariables(c)) = 0 THEN <<Progress, answer>>
  ELSE IF findUnusedVariablesThrows(c)
  THEN <<Progress, Progress>> \o batchProgress(PagesDone) \o <<CompleteError>>
  ELSE <<Progress, Progress>> \o batchProgress(PagesDone) \o <<Progress, answer>>

\* findUnusedVariables(selectedCollections): the unused variables, in store order
findUnusedVariables(selected) ==
  LET variables == getAllVariables(selected)
      Unused(v) == v.id \notin usedVariableIds
  IN IF Len(variables) = 0 THEN <<>> ELSE SelectSeq(variables, Unused)

\* onmessage case 'start-search' of the root build
StartSearchRoot(c) ==
  LET unusedVariables == findUnusedVariables(c)
  IN /\ req' = [NoRequest EXCEPT !.handler = "root", !.type = "start-search", !.collections = c]
     /\ IF findUnusedVariablesThrows(c)
        THEN /\ usage' = {}
             /\ out' = CompleteError
        ELSE /\ usage' = IF Len(getAllVariables(c)) = 0 THEN {} ELSE usedVariableIds
             /\ out' = Complete(IdsOf(unusedVariables), Len(unusedVariables))
     /\ posted' = searchPostsRoot(c, Complete(IdsOf(unusedVariables), Len(unusedVariables)))
     /\ log' = NoLog
     /\ UNCHANGED <<store, collections, nodes, styles, host>>

(***************************************************************************)
(* sel_js build: src/select-unused-variables/code.js                       *)
(***************************************************************************)
\* checkVariableUsage(node, usedVars): what one node adds to usedVars
\* (a node whose bindings cannot be read lands in the outer catch and adds nothing)
checkVariableUsage(nd) ==
  IF BindingsThrow(nd) THEN {}
  ELSE AliasIds(nd.boundVariables)
         \cup (IF nd.type = "TEXT" /\ nd.textStyleId # ""
               THEN AliasIds(StyleBindings(nd.textStyleId)) ELSE {})
         \cup AliasIds(nd.fills)
         \cup UNION {AliasIds(StyleBindings(sid)) : sid \in nd.styles}

\* scanNodes(nodes, usedVars): usedVars after the loop over `nodes`, and whether
\* the loop threw.  node.type and node.children are read outside any try; the
\* main component of an instance is checked inside one, and only the component
\* node itself is checked, its children are not walked.
RECURSIVE scanNodes(_, _)
scanNodes(list, usedVars) ==
  IF list = <<>> THEN [used |-> usedVars, threw |-> FALSE]
  ELSE LET node == Head(list)
           main == IF node.type = "INSTANCE" /\ node.mainComponent # <<>>
                   THEN checkVariableUsage(node.mainComponent[1]) ELSE {}
           below == scanNodes(node.children, usedVars \cup main \cup checkVariableUsage(node))
       IN IF ReadThrows(node) THEN [used |-> usedVars, threw |-> TRUE]
          ELSE IF below.threw THEN below
          ELSE scanNodes(Tail(list), below.used)

\* the loop over figma.getLocalTextStyles(): every local text style's bindings
textStyleUsage == UNION {AliasIds(s.boundVariables) : s \in GetLocalTextStyles}

\* usedVarIds: the pages scanned, then the local text styles
usedVarIds ==
  UNION {scanNodes(PageChildren(Pages[p]), {}).used : p \in DOMAIN Pages} \cup textStyleUsage

\* does a mode value of variable `other` alias variableId?
AliasesTo(other, variableId) ==
  \E m \in DOMAIN other.valuesByMode : other.valuesByMode[m] = Alias(variableId)

\* checkVariableReferences(variableId, collections): the variables of the given
\* collections that hold an alias to variableId in some mode
checkVariableReferences(variableId, collectionsData) ==
  {otherVarId \in UNION {VariableIdsOf(c) : c \in collectionsData} :
     /\ otherVarId # variableId
     /\ AliasesTo(GetVariableById(otherVarId), variableId)}

\* the while (foundNewVariables) loop: add the referrers until nothing is new
RECURSIVE transitiveUsedVars(_, _)
transitiveUsedVars(used, collectionsData) ==
  LET refs == UNION {checkVariableReferences(varId, collectionsData) : varId \in used}
  IN IF refs \subseteq used THEN used
     ELSE transitiveUsedVars(used \cup refs, collectionsData)

\* collectionsData: the requested collections the store knows
collectionsData(c) == c.ids \cap collections

\* the collections validation of start-search: !collections || length === 0
InvalidCollections(c) == ~c.given \/ c.ids = {}

\* the answer of start-search once the collections passed validation
SearchAnswer(c) ==
  LET allVars == getAllVariables(c)
      used == transitiveUsedVars(usedVarIds, collectionsData(c))
      Unused(v) == v.id \notin used
      unusedVariables == SelectSeq(allVars, Unused)
  IN IF Len(allVars) = 0 THEN Complete(<<>>, 0)
     ELSE Complete(IdsOf(unusedVariables), Len(allVars))

\* the usage set start-search ends with
SearchUsage(c) ==
  IF Len(getAllVariables(c)) = 0 THEN {}
  ELSE transitiveUsedVars(usedVarIds, collectionsData(c))

\* `return;` with the fall-through of a handler that lacks it
ReturnAfter_fallThrough(messages) == [messages |-> messages, returned |-> FALSE]

\* what a handler posted before a `return;`
ReturnAfter(messages) == [messages |-> messages, returned |-> TRUE]

\* does start-search of the sel_js build throw into its catch?  On collections
\* that are missing or empty, and when the variable store does not answer.
SearchThrowsSelJs(c) == InvalidCollections(c) \/ ~readable

\* every message start-search of the sel_js build posts, in order: the answer
\* of the catch; or the answer for an empty scope, after which it returns; or
\* the answer at the end of the try
searchPostsSelJs(c) ==
  IF SearchThrowsSelJs(c) THEN <<CompleteError>>
  ELSE LET early == IF Len(getAllVariables(c)) = 0
                    THEN ReturnAfter(<<Complete(<<>>, 0)>>)
                    ELSE [messages |-> <<>>, returned |-> FALSE]
       IN IF early.returned THEN early.messages
          ELSE early.messages \o <<SearchAnswer(c)>>

\* onmessage case 'start-search' of the sel_js build
StartSearchSelJs(c) ==
  /\ req' = [NoRequest EXCEPT !.handler = "sel_js", !.type = "start-search", !.collections = c]
  /\ IF SearchThrowsSelJs(c)
     THEN /\ out' = CompleteError
          /\ usage' = {}
     ELSE /\ out' = SearchAnswer(c)
          /\ usage' = SearchUsage(c)
  /\ posted' = searchPostsSelJs(c)
  /\ log' = NoLog
  /\ UNCHANGED <<store, collections, nodes, styles, host>>

\* is variableId the target of an alias held by any variable of any collection?
\* (the nested loops of getTrulyUnusedVariables over collections and modes)
IsAliasTarget(variableId) ==
  \/ \E c \in collections : \E vid \in VariableIdsOf(c) :
        AliasesTo(GetVariableById(vid), variableId)
  \/ \E c \in collections : variableId \in VariableIdsOf(c) /\
        \E otherId \in VariableIdsOf(c) :
          otherId # variableId /\ AliasesTo(GetVariableById(otherId), variableId)

\* usedVars of getTrulyUnusedVariables: alias targets, scanned pages, text styles
trulyUsedVars ==
  {id \in UNION {VariableIdsOf(c) : c \in collections} : IsAliasTarget(id)}
    \cup usedVarIds

\* getTrulyUnusedVariables(): allVariables.filter(v => !usedVars.has(v.id))
\* (the catch answers [] when the variable store does not answer)
getTrulyUnusedVariables ==
  LET Unused(v) == v.id \notin trulyUsedVars
  IN IF readable THEN SelectSeq(store, Unused) ELSE <<>>

\* the text node createTextNode() puts on the current page
ReportNode == [type |-> "TEXT", page |-> 1, boundVariables |-> {}, styles |-> {},
               fills |-> {}, textStyleId |-> "", report |-> TRUE,
               fault |-> "none", children |-> <<>>, mainComponent |-> <<>>]

\* {report text}: the list print-unused renders into the document
Report(variables) == [NoMessage EXCEPT !.type = "report", !.variables = variables]

\* onmessage case 'print-unused' of the sel_js build
PrintUnusedSelJs ==
  /\ Cardinality({i \in DOMAIN nodes : nodes[i].report}) < MaxReports
  /\ req' = [NoRequest EXCEPT !.handler = "sel_js", !.type = "print-unused"]
  /\ usage' = IF readable THEN trulyUsedVars ELSE {}
  /\ out' = Report(IdsOf(getTrulyUnusedVariables))
  /\ nodes' = Append(nodes, ReportNode)
  /\ posted' = <<>>
  /\ log' = NoLog
  /\ UNCHANGED <<store, collections, styles, host>>

(***************************************************************************)
(* part_000 build: src/unnamed/part_000                                    *)
(***************************************************************************)
\* the number of variables createTestVariables creates: five colours and
\* 'Unused Test Color'
TestVariableCount == 6

\* figma.variables.createVariable(name, testCollection.id, 'COLOR') with a literal value
TestVariable(k) == [id |-> PrefixedId(NumVars + k), variableCollectionId |-> TestCollectionId,
                    resolvedType |-> "COLOR",
                    valuesByMode |-> [m \in Modes |-> Literal]]

\* the store after createTestVariables() ran on a store without variables
createTestVariables == [k \in 1..TestVariableCount |-> TestVariable(k)]

\* the variables list of the complete message: the unused ones, or the first
\* variable in scope relabelled '(TEST)' when none is unused
unusedVarsForUI(allVars, used) ==
  LET Unused(v) == v.id \notin used
      unusedVariables == SelectSeq(allVars, Unused)
  IN IF Len(unusedVariables) = 0 /\ Len(allVars) > 0 THEN <<allVars[1].id>>
     ELSE IdsOf(unusedVariables)

\* onmessage case 'start-search' of the part_000 build
StartSearchPart000(c) ==
  /\ req' = [NoRequest EXCEPT !.handler = "part_000", !.type = "start-search", !.collections = c]
  /\ log' = NoLog
  /\ UNCHANGED <<nodes, styles, host>>
  /\ IF InvalidCollections(c)
     THEN /\ out' = CompleteError
          /\ usage' = {}
          /\ UNCHANGED <<store, collections>>
     ELSE IF Len(store) = 0
     THEN \* createTestVariables(); the new variables are outside the request's scope
          /\ store' = createTestVariables
          /\ collections' = collections \cup {TestCollectionId}
          /\ out' = Complete(<<>>, 0)
          /\ usage' = {}
     ELSE /\ UNCHANGED <<store, collections>>
          /\ usage' = SearchUsage(c)
          /\ out' = LET allVars == getAllVariables(c)
                    IN IF Len(allVars) = 0 THEN Complete(<<>>, 0)
                       ELSE Complete(unusedVarsForUI(allVars, SearchUsage(c)), Len(allVars))
  /\ posted' = <<out'>>

(***************************************************************************)
(* The documents and stores the search is checked on                       *)
(***************************************************************************)
VarId(n) == PrefixedId(n)

PlainNode(page) == [type |-> "RECTANGLE", page |-> page, boundVariables |-> {}, styles |-> {},
                    fills |-> {}, textStyleId |-> "", report |-> FALSE,
                    fault |-> "none", children |-> <<>>, mainComponent |-> <<>>]

\* node.boundVariables = {fills: binding}
BoundNode(page, binding) == [PlainNode(page) EXCEPT !.boundVariables = {binding}]

\* node.styles = {fill: 'S1'}
StyledNode(page) == [PlainNode(page) EXCEPT !.styles = {"S1"}]

\* node.fills.boundVariables = {color: binding}
SurfaceNode(page, binding) == [PlainNode(page) EXCEPT !.fills = {binding}]

\* a text node with textStyleId = 'S1'
TextNode(page) == [PlainNode(page) EXCEPT !.type = "TEXT", !.textStyleId = "S1"]

Style(type, binding) == [id |-> "S1", type |-> type, boundVariables |-> {binding}]

\* a variable n of the store whose single mode holds an alias to `target`, or a
\* literal when target = 0
Variable(n, target) ==
  [id |-> VarId(n), variableCollectionId |-> CollectionOf(n), resolvedType |-> TypeOf(n),
   valuesByMode |-> [m \in Modes |-> IF target = 0 THEN Literal ELSE Alias(VarId(target))]]

\* the variables the drawn documents bind
BoundNums == 1..NumBound

\* page 1 holds one node, bound or not
FirstNodes == {PlainNode(1)} \cup {BoundNode(1, Alias(VarId(n))) : n \in BoundNums}

\* page 2 is empty, or holds one node that reaches a variable in one of the ways
\* the scanners look for; the style registry that goes with it
SecondNodes ==
  {[nodes |-> <<>>, styles |-> {}], [nodes |-> <<PlainNode(2)>>, styles |-> {}]}
    \cup {[nodes |-> <<BoundNode(2, Direct(VarId(n)))>>, styles |-> {}] : n \in BoundNums}
    \cup {[nodes |-> <<SurfaceNode(2, Alias(VarId(n)))>>, styles |-> {}] : n \in BoundNums}
    \cup {[nodes |-> <<StyledNode(2)>>, styles |-> {Style("PAINT", Alias(VarId(n)))}] : n \in BoundNums}
    \cup {[nodes |-> <<TextNode(2)>>, styles |-> {Style("TEXT", Alias(VarId(n)))}] : n \in BoundNums}

\* the stores: variables 1..nv exist, each a literal or an alias to a variable
\* number (an alias to a number above nv dangles)
Stores ==
  UNION {{[n \in 1..nv |-> Variable(n, target[n])] : target \in [1..nv -> 0..NumVars]}
         : nv \in 0..NumVars}

NoHost == [n \in VarNums |-> "ok"]

InitSearch ==
  /\ store \in Stores
  /\ collections = CollectionIds
  /\ \E first \in FirstNodes, second \in SecondNodes :
       /\ nodes = <<first>> \o second.nodes
       /\ styles = second.styles
  /\ host = NoHost
  /\ req = NoRequest
  /\ usage = {}
  /\ out = NoMessage
  /\ log = NoLog
  /\ Started

\* the collections field a UI can send: absent, or ids of collections it was shown
Requests == {Absent} \cup {Given(ids) : ids \in SUBSET collections}

\* the root build answering start-search requests
NextRoot == \E c \in Requests : StartSearchRoot(c) /\ Idle

Spec == InitSearch /\ [][NextRoot]_vars

\* the sel_js and part_000 builds answering start-search requests
NextSel ==
  \/ \E c \in Requests : StartSearchSelJs(c) /\ Idle
  \/ \E c \in Requests : StartSearchPart000(c) /\ Idle

SpecSel == InitSearch /\ [][NextSel]_vars

\* the sel_js build answering start-search and print-unused requests
NextPrint ==
  \/ \E c \in Requests : StartSearchSelJs(c) /\ Idle
  \/ PrintUnusedSelJs /\ Idle

SpecPrint == InitSearch /\ [][NextPrint]_vars

(***************************************************************************)
(* Deletion.  host[n] says what variable.remove() does on variable n:      *)
(*   "ok"       the variable leaves the store                              *)
(*   "throws"   remove() raises and the variable stays                     *)
(*   "ignored"  remove() returns and the variable stays                    *)
(* A delete loop is folded over the targets; its accumulator holds the     *)
(* store as the loop left it and the loop's local lists.                   *)
(***************************************************************************)
RemoveModes == {"ok", "throws", "ignored"}

\* the store without the variable id
RemoveFrom(st, id) == LET Other(v) == v.id # id IN SelectSeq(st, Other)

\* figma.variables.getVariableById(id) !== null, on the store st
ExistsIn(st, id) == \E i \in DOMAIN st : st[i].id = id

\* the accumulator a delete loop starts with
StartLoop == [store |-> store, attempted |-> <<>>, deletedIds |-> <<>>, errors |-> 0,
              aborted |-> FALSE]

\* {type: 'delete-result', success, stats: {success, errors}}
DeleteResult(success, nSuccess, nErrors) ==
  [NoMessage EXCEPT !.type = "delete-result", !.success = success,
                    !.nSuccess = nSuccess, !.nErrors = nErrors]

\* {type: 'delete-result', success: false, error}
DeleteFailed == [NoMessage EXCEPT !.type = "delete-result", !.error = TRUE]

\* one iteration of the sel_js loop: remove() and count, with no re-query
deleteOneSelJs(acc, varId) ==
  IF ~ExistsIn(acc.store, varId) THEN acc
  ELSE LET called == [acc EXCEPT !.attempted = Append(@, varId)]
       IN CASE host[varId.n] = "ok" ->
                 [called EXCEPT !.store = RemoveFrom(@, varId), !.deletedIds = Append(@, varId)]
            [] host[varId.n] = "throws" -> [called EXCEPT !.errors = @ + 1]
            [] host[varId.n] = "ignored" -> [called EXCEPT !.deletedIds = Append(@, varId)]

\* for (const variableObj of msg.variables) of the sel_js build
RECURSIVE deleteLoopSelJs(_, _)
deleteLoopSelJs(acc, targets) ==
  IF targets = <<>> THEN acc
  ELSE deleteLoopSelJs(deleteOneSelJs(acc, Head(targets)), Tail(targets))

\* onmessage case 'delete-variables' of the sel_js build (part_000 holds the
\* same handler)
DeleteVariablesSelJs(targets) ==
  LET done == deleteLoopSelJs(StartLoop, targets)
  IN /\ req' = [NoRequest EXCEPT !.handler = "sel_js", !.type = "delete-variables",
                                 !.targets = targets]
     /\ store' = done.store
     /\ log' = [attempted |-> done.attempted, deletedIds |-> done.deletedIds]
     /\ out' = DeleteResult(TRUE, Len(done.deletedIds), done.errors)
     /\ usage' = {}
     /\ UNCHANGED <<collections, nodes, styles, host>>

\* one iteration of the sel_ts loop: any failure is rethrown and ends the loop
deleteOneSelTs(acc, varId) ==
  IF acc.aborted THEN acc
  ELSE IF ~ExistsIn(acc.store, varId) THEN [acc EXCEPT !.aborted = TRUE]
  ELSE LET called == [acc EXCEPT !.attempted = Append(@, varId)]
       IN IF host[varId.n] = "ok"
          THEN [called EXCEPT !.store = RemoveFrom(@, varId), !.deletedIds = Append(@, varId)]
          ELSE [called EXCEPT !.aborted = TRUE]

\* for (const variable of msg.variables) of the sel_ts build
RECURSIVE deleteLoopSelTs(_, _)
deleteLoopSelTs(acc, targets) ==
  IF targets = <<>> THEN acc
  ELSE deleteLoopSelTs(deleteOneSelTs(acc, Head(targets)), Tail(targets))

\* onmessage case 'delete-variables' of the sel_ts build
DeleteVariablesSelTs(targets) ==
  LET done == deleteLoopSelTs(StartLoop, targets)
  IN /\ req' = [NoRequest EXCEPT !.handler = "sel_ts", !.type = "delete-variables",
                                 !.targets = targets]
     /\ store' = done.store
     /\ log' = [attempted |-> done.attempted, deletedIds |-> done.deletedIds]
     /\ out' = IF Len(targets) = 0 \/ done.aborted THEN DeleteFailed
               ELSE DeleteResult(TRUE, Len(targets), 0)
     /\ usage' = {}
     /\ UNCHANGED <<collections, nodes, styles, host>>

\* validateVariables(ids).appliedVariablesMap: the ids bound on some node
appliedVariablesMap == UNION {AliasIds(nodes[i].boundVariables) : i \in DOMAIN nodes}

\* the first of [id, `VariableID:${id}`, id.replace(/^VariableID:/, '')] the store knows
FindByAnyForm(st, id) ==
  IF ExistsIn(st, id) THEN id
  ELSE IF ExistsIn(st, AddPrefix(id)) THEN AddPrefix(id)
  ELSE IF ExistsIn(st, StripPrefix(id)) THEN StripPrefix(id)
  ELSE NoId

\* one iteration of batchDeleteVariables: look up, refuse a bound variable,
\* remove, re-query
deleteOneBatch(acc, id, applied) ==
  LET found == FindByAnyForm(acc.store, id)
      called == [acc EXCEPT !.attempted = Append(@, found)]
  IN IF found = NoId \/ found \in applied THEN [acc EXCEPT !.errors = @ + 1]
     ELSE IF host[found.n] = "ok"
     THEN [called EXCEPT !.store = RemoveFrom(@, found), !.deletedIds = Append(@, found)]
     ELSE [called EXCEPT !.errors = @ + 1]

\* for (const id of variableIds) of batchDeleteVariables
RECURSIVE deleteLoopBatch(_, _, _)
deleteLoopBatch(acc, ids, applied) ==
  IF ids = <<>> THEN acc
  ELSE deleteLoopBatch(deleteOneBatch(acc, Head(ids), applied), Tail(ids), applied)

\* BatchDeleteResult {success, deletedCount, errors}
BatchDeleteResult(deletedCount, nErrors) ==
  [NoMessage EXCEPT !.type = "batch-delete-result", !.success = deletedCount > 0,
                    !.nSuccess = deletedCount, !.nErrors = nErrors]

\* batchDeleteVariables throws on an empty list
BatchDeleteThrows == [NoMessage EXCEPT !.type = "batch-delete-result", !.error = TRUE]

\* batchDeleteVariables(variableIds) of the sel_ts build
batchDeleteVariables(variableIds) ==
  LET done == deleteLoopBatch(StartLoop, variableIds, appliedVariablesMap)
  IN /\ req' = [NoRequest EXCEPT !.handler = "sel_ts", !.type = "batch-delete",
                                 !.targets = variableIds]
     /\ store' = done.store
     /\ log' = [attempted |-> done.attempted, deletedIds |-> done.deletedIds]
     /\ out' = IF Len(variableIds) = 0 THEN BatchDeleteThrows
               ELSE BatchDeleteResult(Len(done.deletedIds), done.errors)
     /\ usage' = {}
     /\ UNCHANGED <<collections, nodes, styles, host>>

\* the stores a deletion starts on: every variable present, none an alias
FullStore == [n \in VarNums |-> Variable(n, 0)]

InitDelete ==
  /\ store = FullStore
  /\ collections = CollectionIds
  /\ \E first \in FirstNodes : nodes = <<first>>
  /\ styles = {}
  /\ host \in [VarNums -> RemoveModes]
  /\ req = NoRequest
  /\ usage = {}
  /\ out = NoMessage
  /\ log = NoLog
  /\ Started

\* the lists of distinct targets a request can carry, as variable numbers
RECURSIVE TargetNums(_)
TargetNums(len) ==
  IF len = 0 THEN {<<>>}
  ELSE LET shorter == TargetNums(len - 1)
       IN shorter \cup {Append(t, n) : t \in {u \in shorter : Len(u) = len - 1},
                                        n \in VarNums}

DistinctTargets == {t \in TargetNums(MaxTargets) : Cardinality(SeqRange(t)) = Len(t)}

\* the targets as the UI sends them: the ids a search listed
Targets == {[i \in DOMAIN t |-> VarId(t[i])] : t \in DistinctTargets}

\* the targets in the raw form
RawTargets == {[i \in DOMAIN t |-> RawId(t[i])] : t \in DistinctTargets}

NextDelete ==
  \/ \E targets \in Targets : DeleteVariablesSelJs(targets) /\ Silent /\ Idle
  \/ \E targets \in Targets : DeleteVariablesSelTs(targets) /\ Silent /\ Idle
  \/ \E ids \in Targets \cup RawTargets : batchDeleteVariables(ids) /\ Silent /\ Idle

SpecDelete == InitDelete /\ [][NextDelete]_vars

(***************************************************************************)
(* sel_ts build: the filters of src/select-unused-variables/code.ts        *)
(***************************************************************************)
\* filterVariables(variables, options)
filterVariables(variables, options) ==
  LET Passes(v) ==
        /\ (options.types = {} \/ v.resolvedType \in options.types)
        /\ (options.collections = {}
              \/ CollectionName(v.variableCollectionId) \in options.collections)
        /\ (options.modes = {} \/ DOMAIN v.valuesByMode \cap options.modes # {})
  IN SelectSeq(variables, Passes)

\* {filtered variables}: what filterVariables returned
Filtered(variables) == [NoMessage EXCEPT !.type = "filtered", !.variables = variables]

\* filterVariables applied to the store, as findUnusedVariables(options) does first
FilterVariables(options) ==
  /\ req' = [NoRequest EXCEPT !.handler = "sel_ts", !.type = "filter", !.options = options]
  /\ out' = Filtered(IdsOf(filterVariables(store, options)))
  /\ usage' = {}
  /\ log' = NoLog
  /\ UNCHANGED <<store, collections, nodes, styles, host>>

\* the strings a collections filter can hold: collection ids and collection names
FilterKeys == CollectionIds \cup {CollectionName(c) : c \in CollectionIds}

AllOptions ==
  {FilterOptions(t, c, m) : t \in {{}, {"COLOR"}}, c \in SUBSET FilterKeys, m \in {{}, {"m2"}}}

InitFilter ==
  /\ store \in Stores
  /\ collections = CollectionIds
  /\ nodes = <<PlainNode(1)>>
  /\ styles = {}
  /\ host = NoHost
  /\ req = NoRequest
  /\ usage = {}
  /\ out = NoMessage
  /\ log = NoLog
  /\ Started

NextFilter == \E options \in AllOptions : FilterVariables(options) /\ Silent /\ Idle

SpecFilter == InitFilter /\ [][NextFilter]_vars

\* the ids node.getBoundVariable(prop) answers with
BoundVariableIds(nd) == {b.id : b \in nd.boundVariables}

\* getActiveVariableReferences(): every bound id and its form without the prefix
getActiveVariableReferences ==
  UNION {{varId, StripPrefix(varId)} :
           varId \in UNION {BoundVariableIds(nodes[i]) : i \in DOMAIN nodes}}

\* getActiveVariableReferences() run on the document
GetActiveVariableReferences ==
  /\ req' = [NoRequest EXCEPT !.handler = "sel_ts", !.type = "active-references"]
  /\ usage' = getActiveVariableReferences
  /\ out' = NoMessage
  /\ log' = NoLog
  /\ UNCHANGED <<store, collections, nodes, styles, host>>

\* filterUnusedVariables(usedIds)
filterUnusedVariables(usedIds) ==
  LET Unused(variable) == ~(variable.id \in usedIds \/ StripPrefix(variable.id) \in usedIds)
  IN SelectSeq(store, Unused)

\* filterUnusedVariables applied to a usage set
FilterUnusedVariables(usedIds) ==
  /\ req' = [NoRequest EXCEPT !.handler = "sel_ts", !.type = "filter-unused"]
  /\ usage' = usedIds
  /\ out' = Filtered(IdsOf(filterUnusedVariables(usedIds)))
  /\ log' = NoLog
  /\ UNCHANGED <<store, collections, nodes, styles, host>>

\* a literal variable n whose id has the raw or the prefixed form
FormVariable(n, prefixed) ==
  [Variable(n, 0) EXCEPT !.id = IF prefixed THEN PrefixedId(n) ELSE RawId(n)]

\* the stores whose ids mix the two forms
FormStores ==
  UNION {{[n \in 1..nv |-> FormVariable(n, prefixed[n])] : prefixed \in [1..nv -> BOOLEAN]}
         : nv \in 0..NumVars}

\* one node, bound to an id in either form or to nothing
FormNodes == {PlainNode(1)} \cup {BoundNode(1, Alias(id)) : id \in AllIds}

InitPrefix ==
  /\ store \in FormStores
  /\ collections = CollectionIds
  /\ \E nd \in FormNodes : nodes = <<nd>>
  /\ styles = {}
  /\ host = NoHost
  /\ req = NoRequest
  /\ usage = {}
  /\ out = NoMessage
  /\ log = NoLog
  /\ Started

NextPrefix ==
  \/ GetActiveVariableReferences /\ Silent /\ Idle
  \/ \E usedIds \in (SUBSET AllIds) \cup {usage} :
       FilterUnusedVariables(usedIds) /\ Silent /\ Idle
  \/ \E c \in Requests : StartSearchSelJs(c) /\ Idle

SpecPrefix == InitPrefix /\ [][NextPrefix]_vars

(***************************************************************************)
(* Deletion with retries.  Besides the three lasting behaviours, the host  *)
(* may fail a few calls of remove() on a variable and then serve one:      *)
(*   "second"  the next call is ignored, the one after it removes          *)
(*   "third"   the next call throws, then as "second"                      *)
(*   "fourth"  the next call throws, then as "third"                       *)
(***************************************************************************)
RetryModes == RemoveModes \cup {"second", "third", "fourth"}

\* what one call of variable.remove() does under a host behaviour
RemoveOutcome(mode) ==
  CASE mode = "ok" -> "ok"
    [] mode \in {"throws", "third", "fourth"} -> "throws"
    [] mode \in {"ignored", "second"} -> "ignored"

\* the host behaviour after one more call of remove()
AfterCall(mode) ==
  CASE mode = "fourth" -> "third"
    [] mode = "third" -> "second"
    [] mode = "second" -> "ok"
    [] OTHER -> mode

\* the accumulator a retrying delete loop starts with
StartRetry == [store |-> store, host |-> host, attempted |-> <<>>, deletedIds |-> <<>>]

\* variable.remove() called once on id: the store and the host afterwards. A
\* call on a variable that is gone throws.
removeCall(acc, id) ==
  LET called == [acc EXCEPT !.attempted = Append(@, id), !.host[id.n] = AfterCall(@)]
  IN IF ExistsIn(acc.store, id) /\ RemoveOutcome(acc.host[id.n]) = "ok"
     THEN [called EXCEPT !.store = RemoveFrom(@, id)]
     ELSE called

\* let deleteAttempts = 3
deleteAttempts == 3

\* while (deleteAttempts > 0 && !deleted) with the guard dropped on deleted
ShouldRetry_ignoreDeleted(attemptsLeft, deleted) == attemptsLeft > 0

\* while (deleteAttempts > 0 && !deleted)
ShouldRetry(attemptsLeft, deleted) == attemptsLeft > 0 /\ ~deleted

\* the delete/verify loop of safeDeleteVariables for one variable
RECURSIVE retryRemoveRoot(_, _, _, _)
retryRemoveRoot(acc, id, attemptsLeft, deleted) ==
  IF ~ShouldRetry(attemptsLeft, deleted) THEN acc
  ELSE LET called == removeCall(acc, id)
           stillExists == ExistsIn(called.store, id)
           verified == IF stillExists \/ id \in SeqRange(called.deletedIds) THEN called
                       ELSE [called EXCEPT !.deletedIds = Append(@, id)]
       IN retryRemoveRoot(verified, id, attemptsLeft - 1, deleted \/ ~stillExists)

\* one iteration of safeDeleteVariables: skip a variable that is gone, detach,
\* then the delete/verify loop
safeDeleteOne(acc, id) ==
  IF ~ExistsIn(acc.store, id) THEN acc
  ELSE retryRemoveRoot(acc, id, deleteAttempts, FALSE)

\* safeDeleteVariables(variables)
RECURSIVE safeDeleteVariables(_, _)
safeDeleteVariables(acc, variables) ==
  IF variables = <<>> THEN acc
  ELSE safeDeleteVariables(safeDeleteOne(acc, Head(variables)), Tail(variables))

\* checkVariableUsage of the root build: the bindable properties of the node
\* and, for a text node, its text style
checkVariableUsageRoot(nd) ==
  AliasIds(nd.fills)
    \cup (IF nd.type = "TEXT" /\ nd.textStyleId # ""
          THEN AliasIds(StyleBindings(nd.textStyleId)) ELSE {})

\* scanNodes of the root build over every page, then the local text styles
usedVarsRoot ==
  UNION {checkVariableUsageRoot(nodes[i]) : i \in DOMAIN nodes} \cup textStyleUsage

\* getTrulyUnusedVariables() of the root build
getTrulyUnusedVariablesRoot ==
  LET Unused(v) == v.id \notin usedVarsRoot IN SelectSeq(store, Unused)

\* {type: 'deletion-complete', deletedVariables, stats: {totalVariables}}
DeletionComplete(deletedVars, total) ==
  [NoMessage EXCEPT !.type = "deletion-complete", !.variables = deletedVars,
                    !.totalVariables = total]

\* onmessage case 'delete-unused' of the root build
DeleteUnusedRoot ==
  LET unusedVars == IdsOf(getTrulyUnusedVariablesRoot)
      done == safeDeleteVariables(StartRetry, unusedVars)
      Gone(id) == ~ExistsIn(done.store, id)
  IN /\ req' = [NoRequest EXCEPT !.handler = "root", !.type = "delete-unused",
                                 !.targets = unusedVars]
     /\ usage' = usedVarsRoot
     /\ store' = done.store
     /\ host' = done.host
     /\ log' = [attempted |-> done.attempted, deletedIds |-> done.deletedIds]
     /\ out' = IF Len(unusedVars) = 0 THEN DeletionComplete(<<>>, 0)
               ELSE DeletionComplete(SelectSeq(unusedVars, Gone), Len(done.store))
     /\ UNCHANGED <<collections, nodes, styles>>

\* DELETE_CONFIG.maxRetries
maxRetries == 3

\* deleteVariableWithRetry(operation): the accumulator gains `status` and
\* `retryCount`, the fields of the operation
RECURSIVE deleteVariableWithRetry(_, _, _)
deleteVariableWithRetry(acc, id, retryCount) ==
  IF retryCount >= maxRetries
  THEN [store |-> acc.store, host |-> acc.host, attempted |-> acc.attempted,
        deletedIds |-> acc.deletedIds, status |-> "error", retryCount |-> retryCount]
  ELSE LET called == removeCall(acc, id)
           \* remove() threw, or the re-query still finds the variable
           rejected == ~ExistsIn(acc.store, id) \/ ExistsIn(called.store, id)
       IN IF rejected
          THEN deleteVariableWithRetry(called, id, retryCount + 1)
          ELSE [store |-> called.store, host |-> called.host, attempted |-> called.attempted,
                deletedIds |-> Append(called.deletedIds, id), status |-> "success",
                retryCount |-> retryCount]

\* the operation after deleteVariableWithRetry: {status, error}
OperationResult(status) ==
  [NoMessage EXCEPT !.type = "delete-operation", !.success = (status = "success"),
                    !.error = (status = "error")]

\* deleteVariableWithRetry called on an operation for a variable of the store
DeleteVariableWithRetry(id, retryCount) ==
  LET done == deleteVariableWithRetry(StartRetry, id, retryCount)
  IN /\ ExistsIn(store, id)
     /\ req' = [NoRequest EXCEPT !.handler = "sel_ts", !.type = "delete-with-retry",
                                 !.targets = <<id>>]
     /\ usage' = {}
     /\ store' = done.store
     /\ host' = done.host
     /\ log' = [attempted |-> done.attempted, deletedIds |-> done.deletedIds]
     /\ out' = OperationResult(done.status)
     /\ UNCHANGED <<collections, nodes, styles>>

\* the documents a retrying deletion starts on: one node, plain, or bound
\* through its boundVariables, or through its fills
RetryNodes ==
  {PlainNode(1), BoundNode(1, Alias(VarId(1)))}
    \cup {SurfaceNode(1, Alias(VarId(n))) : n \in BoundNums}

InitRetry ==
  /\ store = FullStore
  /\ collections = CollectionIds
  /\ \E nd \in RetryNodes : nodes = <<nd>>
  /\ styles = {}
  /\ host \in [VarNums -> RetryModes]
  /\ req = NoRequest
  /\ usage = {}
  /\ out = NoMessage
  /\ log = NoLog
  /\ Started

NextRetry ==
  \/ DeleteUnusedRoot /\ Silent /\ Idle
  \/ \E n \in VarNums, retryCount \in 0..maxRetries :
       DeleteVariableWithRetry(VarId(n), retryCount) /\ Silent /\ Idle

SpecRetry == InitRetry /\ [][NextRetry]_vars

(***************************************************************************)
(* Documents with nested nodes, component instances and nodes that cannot  *)
(* be read                                                                 *)
(***************************************************************************)
\* how deep below a main component the documents nest a binding
NestDepth == 5

Faults == {"none", "property", "node"}

Faulty(nd, fault) == [nd EXCEPT !.fault = fault]

\* a frame holding `kids`
Frame(page, kids) == [PlainNode(page) EXCEPT !.type = "FRAME", !.children = kids]

\* `leaf` wrapped in `depth` frames
RECURSIVE Nested(_, _, _)
Nested(page, depth, leaf) ==
  IF depth = 0 THEN leaf ELSE Frame(page, <<Nested(page, depth - 1, leaf)>>)

\* a main component that is in no page tree (page 0: its file, or the page it
\* was on, no longer holds it), with `leaf` at `depth` levels below it
Component(depth, leaf) ==
  [PlainNode(0) EXCEPT !.type = "COMPONENT", !.children = <<Nested(0, depth - 1, leaf)>>]

\* a node of a component that is in no page tree, bound to variable n
ComponentLeaf(n) == BoundNode(0, Alias(VarId(n)))

\* an instance of `main` whose own sublayers carry no binding
Instance(page, depth, main) ==
  [PlainNode(page) EXCEPT !.type = "INSTANCE", !.mainComponent = <<main>>,
                          !.children = <<Nested(page, depth - 1, PlainNode(page))>>]

\* page 1: a node that may not be readable, alone or inside a frame, followed by
\* a sibling bound to a variable; page 2: empty or one bound node
FaultDocuments ==
  {<<first, BoundNode(1, Alias(VarId(b)))>> \o second :
     first \in {Faulty(PlainNode(1), f) : f \in Faults}
                 \cup {Frame(1, <<Faulty(PlainNode(1), f)>>) : f \in Faults},
     b \in BoundNums,
     second \in {<<>>} \cup {<<BoundNode(2, Alias(VarId(n)))>> : n \in BoundNums}}

\* page 1 holds an instance whose main component binds a variable `depth`
\* levels down, and nothing else binds it
InstanceDocuments ==
  {<<Instance(1, depth, Component(depth, ComponentLeaf(b)))>> :
     depth \in 1..NestDepth, b \in BoundNums}

InitScan ==
  /\ store = FullStore
  /\ collections = CollectionIds
  /\ nodes \in FaultDocuments \cup InstanceDocuments
  /\ styles = {}
  /\ host = NoHost
  /\ req = NoRequest
  /\ usage = {}
  /\ out = NoMessage
  /\ log = NoLog
  /\ Started

\* the root and sel_js builds answering start-search requests on these documents
NextScan ==
  \/ \E c \in Requests : StartSearchRoot(c) /\ Idle
  \/ \E c \in Requests : StartSearchSelJs(c) /\ Idle

SpecScan == InitScan /\ [][NextScan]_vars

(***************************************************************************)
(* Searches and reports in a file whose variable store may not answer      *)
(***************************************************************************)
\* no variable, one variable (collection c2 is then empty), or all of them
ReadStores == {<<>>, <<Variable(1, 0)>>, FullStore}

InitRead ==
  /\ store \in ReadStores
  /\ collections = CollectionIds
  /\ nodes \in FaultDocuments
  /\ styles = {}
  /\ host = NoHost
  /\ req = NoRequest
  /\ usage = {}
  /\ out = NoMessage
  /\ log = NoLog
  /\ posted = <<>>
  /\ readable \in BOOLEAN
  /\ variableCache = NoCache
  /\ now = 0
  /\ ui = NoUi
  /\ inbox = <<>>
  /\ running = <<>>
  /\ proc = NoProc

\* the root and sel_js builds answering start-search, the sel_js build
\* answering print-unused
NextRead ==
  \/ \E c \in Requests : StartSearchRoot(c) /\ Idle
  \/ \E c \in Requests : StartSearchSelJs(c) /\ Idle
  \/ PrintUnusedSelJs /\ Idle

SpecRead == InitRead /\ [][NextRead]_vars

(***************************************************************************)
(* sel_ts build: findUnusedVariables(options) and its variableCache        *)
(***************************************************************************)
\* CACHE_EXPIRATION, in minutes
CACHE_EXPIRATION == 5

\* how long the clock runs
MaxTime == 6

\* cleanExpiredCache(): entries older than CACHE_EXPIRATION are deleted
cleanExpiredCache(cache, t) ==
  [n \in VarNums |->
     IF cache[n].cached /\ t - cache[n].lastCheck > CACHE_EXPIRATION
     THEN NoCache[n] ELSE cache[n]]

\* checkNodeForReferences(page, variable.id): is some node of the page tree bound
\* to an alias whose id, with the prefix stripped, is the variable's id?
checkNodeForReferences(page, variableId) ==
  \E nd \in SeqRange(FindAll(page)) :
    \E b \in nd.boundVariables : b.type = "VARIABLE_ALIAS" /\ StripPrefix(b.id) = variableId

\* checkVariableReferences(variable) of the sel_ts build: an alias held by
\* another variable of a collection, or a binding on a node of a page; true when
\* the check throws
checkVariableReferencesSelTs(variable) ==
  \/ ~readable
  \/ \E c \in collections : \E varId \in VariableIdsOf(c) :
       /\ varId # variable.id
       /\ \E m \in DOMAIN GetVariableById(varId).valuesByMode :
            LET value == GetVariableById(varId).valuesByMode[m]
            IN value.type = "VARIABLE_ALIAS" /\ StripPrefix(value.id) = variable.id
  \/ \E p \in DOMAIN Pages : checkNodeForReferences(Pages[p], variable.id)

\* getCachedVariableStatus with the age test `<=`: an entry is still served at
\* the moment it expires
getCachedVariableStatus_atExpiry(cache, t, variable) ==
  LET cached == cache[variable.id.n]
  IN IF cached.cached /\ t - cached.lastCheck <= CACHE_EXPIRATION THEN cached
     ELSE [cached |-> TRUE, lastCheck |-> t,
           isUsed |-> checkVariableReferencesSelTs(variable)]

\* getCachedVariableStatus(variable): the cached entry while it is younger than
\* CACHE_EXPIRATION, else a new entry from checkVariableReferences
getCachedVariableStatus(cache, t, variable) ==
  LET cached == cache[variable.id.n]
  IN IF cached.cached /\ t - cached.lastCheck < CACHE_EXPIRATION THEN cached
     ELSE [cached |-> TRUE, lastCheck |-> t,
           isUsed |-> checkVariableReferencesSelTs(variable)]

\* findUnusedVariables(options) of the sel_ts build, run on the cache `cache`
\* at time t: the unused variables and the cache it leaves
findUnusedVariablesSelTs(options, cache, t) ==
  LET cleaned == cleanExpiredCache(cache, t)
      filteredVariables == filterVariables(store, options)
      Status(v) == getCachedVariableStatus(cleaned, t, v)
      Unused(v) == ~Status(v).isUsed
      Checked(n) == \E i \in DOMAIN filteredVariables : filteredVariables[i].id.n = n
      VariableOf(n) ==
        filteredVariables[CHOOSE i \in DOMAIN filteredVariables : filteredVariables[i].id.n = n]
  IN [unusedVariables |-> SelectSeq(filteredVariables, Unused),
      cache |-> [n \in VarNums |-> IF Checked(n) THEN Status(VariableOf(n)) ELSE cleaned[n]]]

\* {unused variables}: what findUnusedVariables returned
UnusedResult(variables) == [NoMessage EXCEPT !.type = "unused", !.variables = variables]

\* a call of findUnusedVariables(options)
FindUnusedVariablesSelTs(options) ==
  LET result == findUnusedVariablesSelTs(options, variableCache, now)
  IN /\ req' = [NoRequest EXCEPT !.handler = "sel_ts", !.type = "find-unused",
                                 !.options = options]
     /\ out' = UnusedResult(IdsOf(result.unusedVariables))
     /\ usage' = {store[i].id : i \in {j \in DOMAIN store : result.cache[store[j].id.n].isUsed}}
     /\ variableCache' = result.cache
     /\ log' = NoLog
     /\ posted' = <<>>
     /\ UNCHANGED <<store, collections, nodes, styles, host, readable, now, ui, inbox, running, proc>>

\* onmessage case 'clear-cache': variableCache.clear() and a notification
ClearCache ==
  /\ req' = [NoRequest EXCEPT !.handler = "sel_ts", !.type = "clear-cache"]
  /\ variableCache' = NoCache
  /\ UNCHANGED <<store, collections, nodes, styles, host, usage, out, log,
                 posted, readable, now, ui, inbox, running, proc>>

\* a minute passes
Tick ==
  /\ now < MaxTime
  /\ now' = now + 1
  /\ UNCHANGED <<store, collections, nodes, styles, host, req, usage, out, log,
                 posted, readable, variableCache, ui, inbox, running, proc>>

\* the documents the user moves between: the one node is bound to variable 1,
\* by an id in either form, or to nothing
CacheNodes == {PlainNode(1), BoundNode(1, Alias(RawId(1))), BoundNode(1, Alias(PrefixedId(1)))}

\* the user binds or unbinds the node
EditDocument ==
  /\ \E nd \in CacheNodes : nodes' = <<nd>> /\ nodes' # nodes
  /\ UNCHANGED <<store, collections, styles, host, req, usage, out, log,
                 posted, readable, variableCache, now, ui, inbox, running, proc>>

\* the stores: variable 1 alone, with variable 2, or with variable 2 and a
\* variable of another type, ids in either form
CacheStores ==
  {<<FormVariable(1, prefixed)>> : prefixed \in BOOLEAN}
    \cup {<<FormVariable(1, prefixed), FormVariable(2, prefixed)>> : prefixed \in BOOLEAN}
    \cup {<<FormVariable(1, prefixed), FormVariable(2, prefixed), FormVariable(NumVars, prefixed)>>
            : prefixed \in BOOLEAN}

CacheOptions == {FilterOptions(t, {}, {}) : t \in {{}, {"COLOR"}}}

InitCache ==
  /\ store \in CacheStores
  /\ collections = CollectionIds
  /\ \E nd \in CacheNodes : nodes = <<nd>>
  /\ styles = {}
  /\ host = NoHost
  /\ req = NoRequest
  /\ usage = {}
  /\ out = NoMessage
  /\ log = NoLog
  /\ Started

NextCache ==
  \/ \E options \in CacheOptions : FindUnusedVariablesSelTs(options)
  \/ Tick
  \/ EditDocument
  \/ ClearCache

SpecCache == InitCache /\ [][NextCache]_vars

(***************************************************************************)
(* The UI page and the plugin's message loop (sel_js build)                *)
(***************************************************************************)
\* how many start-search messages may wait in the queue
MaxInbox == 2

\* the change handler of a collection checkbox, which ends in
\* updateStartButton(): the start button is disabled iff nothing is checked
ToggleCheckbox(c) ==
  LET checked == IF c \in ui.checked THEN ui.checked \ {c} ELSE ui.checked \cup {c}
  IN /\ ui' = [checked |-> checked, disabled |-> checked = {}]
     /\ UNCHANGED <<store, collections, nodes, styles, host, req, usage, out, log,
                    posted, readable, variableCache, now, inbox, running, proc>>

\* startButton.onclick: disable the button and post start-search with the
\* checked collections
ClickStart ==
  /\ ~ui.disabled
  /\ ui.checked # {}
  /\ Len(inbox) < MaxInbox
  /\ ui' = [ui EXCEPT !.disabled = TRUE]
  /\ inbox' = Append(inbox, Given(ui.checked))
  /\ UNCHANGED <<store, collections, nodes, styles, host, req, usage, out, log,
                 posted, readable, variableCache, now, running, proc>>

\* a start-search handler that hands the thread back before it returns
ScanYields_timer == TRUE

\* does the start-search handler of the sel_js build hand the thread back before
\* it returns?  It awaits its own async functions only (getAllVariables,
\* scanNodes), none of which awaits a timer or a promise of the host.
ScanYields == FALSE

\* the plugin takes the next message off the queue and figma.ui.onmessage
\* starts on it; it does so only while no handler holds the thread
BeginSearch ==
  /\ inbox # <<>>
  /\ running = <<>> \/ ScanYields
  /\ running' = Append(running, Head(inbox))
  /\ inbox' = Tail(inbox)
  /\ UNCHANGED <<store, collections, nodes, styles, host, req, usage, out, log,
                 posted, readable, variableCache, now, ui, proc>>

\* the handler that started first runs to its end and posts its answer
FinishSearch ==
  /\ running # <<>>
  /\ StartSearchSelJs(Head(running))
  /\ running' = Tail(running)
  /\ UNCHANGED <<readable, variableCache, now, ui, inbox, proc>>

InitLoop ==
  /\ store \in {<<>>, FullStore}
  /\ collections = CollectionIds
  /\ \E first \in FirstNodes : nodes = <<first>>
  /\ styles = {}
  /\ host = NoHost
  /\ req = NoRequest
  /\ usage = {}
  /\ out = NoMessage
  /\ log = NoLog
  /\ Started

NextLoop ==
  \/ \E c \in CollectionIds : ToggleCheckbox(c)
  \/ ClickStart
  \/ BeginSearch
  \/ FinishSearch

SpecLoop == InitLoop /\ [][NextLoop]_vars

(***************************************************************************)
(* Detaching a variable before its removal (root build)                    *)
(***************************************************************************)

\* the filter of figma.root.findAll: a bindable property of the node holds a
\* binding whose id is the variable's; a node whose properties throw is left out
BoundThroughProperty(nd, variableId) ==
  ~BindingsThrow(nd) /\ \E b \in nd.fills : b.id = variableId

\* what the loop over BINDABLE_PROPERTIES leaves of one matched node: every
\* property that has boundVariables is detached as a whole and then assigned its
\* original value. `detached` is the host's part: FALSE when the node has no
\* detachVariable method or the assignment brings the bindings back
detachProperties(nd, detached) ==
  IF nd.fills # {} /\ detached THEN [nd EXCEPT !.fills = {}] ELSE nd

\* the nodes of a subtree after detachVariableFromAllNodes
RECURSIVE detachInNode(_, _, _)
detachInNode(nd, variableId, detached) ==
  LET here == IF BoundThroughProperty(nd, variableId)
              THEN detachProperties(nd, detached) ELSE nd
  IN [here EXCEPT !.children =
        [i \in DOMAIN nd.children |-> detachInNode(nd.children[i], variableId, detached)]]

\* detachVariableFromAllNodes(variable)
detachVariableFromAllNodes(doc, variableId, detached) ==
  [i \in DOMAIN doc |-> detachInNode(doc[i], variableId, detached)]

DetachVariableFromAllNodes(variableId, detached) ==
  /\ ExistsIn(store, variableId)
  /\ req' = [NoRequest EXCEPT !.handler = "root", !.type = "detach",
                              !.targets = <<variableId>>]
  /\ nodes' = detachVariableFromAllNodes(nodes, variableId, detached)
  /\ UNCHANGED <<store, collections, styles, host, usage, out, log>>

\* node.fills.boundVariables holding the given bindings
PaintedNode(page, bindings) == [PlainNode(page) EXCEPT !.fills = bindings]

\* the nodes of the documents a variable is detached from: one bound through
\* node.boundVariables, and one per set of bindings of its fills
DetachNodes ==
  {BoundNode(1, Alias(VarId(1)))}
    \cup {PaintedNode(1, {Alias(VarId(n)) : n \in ns}) : ns \in SUBSET VarNums}
    \cup {[PlainNode(1) EXCEPT !.children = <<PaintedNode(1, {Alias(VarId(n)) : n \in BoundNums})>>]}

InitDetach ==
  /\ store = FullStore
  /\ collections = CollectionIds
  /\ \E a, b \in DetachNodes : nodes = <<a, b>>
  /\ styles = {}
  /\ host = NoHost
  /\ req = NoRequest
  /\ usage = {}
  /\ out = NoMessage
  /\ log = NoLog
  /\ Started

NextDetach ==
  \E n \in VarNums, detached \in BOOLEAN :
    DetachVariableFromAllNodes(VarId(n), detached) /\ Silent /\ Idle

SpecDetach == InitDetach /\ [][NextDetach]_vars

(***************************************************************************)
(* Alias values whose id has either form                                   *)
(***************************************************************************)

\* variable n, id in the given form, every mode holding `value`
ValuedVariable(n, prefixed, value) ==
  [FormVariable(n, prefixed) EXCEPT !.valuesByMode = [m \in Modes |-> value]]

\* the stores: variable 1 holds a literal; variable 2 holds a literal or an alias
\* to variable 1; the two ids and the alias id each have either form
AliasStores ==
  {<<FormVariable(1, p1), ValuedVariable(2, p2, value)>> :
     p1 \in BOOLEAN, p2 \in BOOLEAN,
     value \in {Literal, Alias(RawId(1)), Alias(PrefixedId(1))}}

InitAlias ==
  /\ store \in AliasStores
  /\ collections = CollectionIds
  /\ \E nd \in CacheNodes : nodes = <<nd>>
  /\ styles = {}
  /\ host = NoHost
  /\ req = NoRequest
  /\ usage = {}
  /\ out = NoMessage
  /\ log = NoLog
  /\ Started

\* the sel_ts build asked for the unused variables, the sel_js build asked to
\* search
NextAlias ==
  \/ \E options \in CacheOptions : FindUnusedVariablesSelTs(options)
  \/ \E c \in Requests : StartSearchSelJs(c) /\ Idle

SpecAlias == InitAlias /\ [][NextAlias]_vars

(***************************************************************************)
(* The closure loop of the sel_js build, one iteration at a time.          *)
(* proc.transitiveUsedVars is the Set in insertion order, which is the     *)
(* order for..of visits it in, ids added during the visit included;        *)
(* proc.next is the position of the for..of.                               *)
(***************************************************************************)

\* the orders a Set holding `ids` may have them in
Orders(ids) ==
  {q \in [1..Cardinality(ids) -> ids] : \A i, j \in DOMAIN q : i # j => q[i] # q[j]}

\* the refs that pass if (!transitiveUsedVars.has(refId)), in the order of the store
NewRefs(refs, transitive) ==
  LET New(id) == id \in refs /\ id \notin SeqRange(transitive)
  IN SelectSeq(IdsOf(store), New)

\* the loop body with the has() test dropped from the flag: any ref counts as new
FoundNew_anyRef(refs, transitive) == refs # {}

\* does the inner loop set foundNewVariables?
FoundNew(refs, transitive) == NewRefs(refs, transitive) # <<>>

\* {type: 'auto-analysis-result', variables, stats: {totalVariables}}
AutoAnalysisResult(variables, total) ==
  [NoMessage EXCEPT !.type = "auto-analysis-result", !.variables = variables,
                    !.totalVariables = total]

\* start-search or auto-analyze up to the loop: the request passed validation,
\* the scope holds variables, pages and text styles are scanned, the Set is
\* made and the first pass begins
BeginClosure(type, c) ==
  /\ proc.pc \in {"idle", "done"}
  /\ ~SearchThrowsSelJs(c)
  /\ Len(getAllVariables(c)) > 0
  /\ req' = [NoRequest EXCEPT !.handler = "sel_js", !.type = type, !.collections = c]
  /\ \E order \in Orders(usedVarIds) :
       proc' = [pc |-> "for", transitiveUsedVars |-> order,
                foundNewVariables |-> FALSE, next |-> 1]
  /\ usage' = {}
  /\ out' = NoMessage
  /\ posted' = <<>>
  /\ log' = NoLog
  /\ UNCHANGED <<store, collections, nodes, styles, host,
                 readable, variableCache, now, ui, inbox, running>>

\* a request that ends before the loop: the catch, or the empty scope
AnswerWithoutClosure(type, c) ==
  /\ proc.pc \in {"idle", "done"}
  /\ SearchThrowsSelJs(c) \/ Len(getAllVariables(c)) = 0
  /\ IF type = "start-search" THEN StartSearchSelJs(c)
     ELSE /\ req' = [NoRequest EXCEPT !.handler = "sel_js", !.type = type, !.collections = c]
          /\ out' = AutoAnalysisResult(<<>>, 0)
          /\ posted' = <<AutoAnalysisResult(<<>>, 0)>>
          /\ usage' = {}
          /\ log' = NoLog
          /\ UNCHANGED <<store, collections, nodes, styles, host>>
  /\ proc' = NoProc
  /\ UNCHANGED <<readable, variableCache, now, ui, inbox, running>>

\* one iteration of for (const varId of transitiveUsedVars)
ForStep ==
  /\ proc.pc = "for"
  /\ proc.next <= Len(proc.transitiveUsedVars)
  /\ LET varId == proc.transitiveUsedVars[proc.next]
         refs == checkVariableReferences(varId, collectionsData(req.collections))
     IN proc' = [proc EXCEPT
                   !.transitiveUsedVars = @ \o NewRefs(refs, @),
                   !.foundNewVariables = @ \/ FoundNew(refs, proc.transitiveUsedVars),
                   !.next = @ + 1]
  /\ UNCHANGED <<store, collections, nodes, styles, host, req, usage, out, log,
                 posted, readable, variableCache, now, ui, inbox, running>>

\* the for..of is through: while (foundNewVariables) starts another pass or ends
EndPass ==
  /\ proc.pc = "for"
  /\ proc.next > Len(proc.transitiveUsedVars)
  /\ proc' = IF proc.foundNewVariables
             THEN [proc EXCEPT !.foundNewVariables = FALSE, !.next = 1]
             ELSE [proc EXCEPT !.pc = "filter"]
  /\ UNCHANGED <<store, collections, nodes, styles, host, req, usage, out, log,
                 posted, readable, variableCache, now, ui, inbox, running>>

\* after the loop: the unused variables are filtered and the answer is posted
FinishClosure ==
  /\ proc.pc = "filter"
  /\ LET allVars == getAllVariables(req.collections)
         Unused(v) == v.id \notin SeqRange(proc.transitiveUsedVars)
         unusedVariables == IdsOf(SelectSeq(allVars, Unused))
         answer == IF req.type = "start-search"
                   THEN Complete(unusedVariables, Len(allVars))
                   ELSE AutoAnalysisResult(unusedVariables, Len(allVars))
     IN /\ out' = answer
        /\ posted' = <<answer>>
  /\ usage' = SeqRange(proc.transitiveUsedVars)
  /\ proc' = [proc EXCEPT !.pc = "done"]
  /\ UNCHANGED <<store, collections, nodes, styles, host, req, log,
                 readable, variableCache, now, ui, inbox, running>>

\* the stores: every variable a literal or an alias to any variable, itself
\* included, so that alias chains of every shape occur, cycles among them
ClosureStores ==
  {[n \in VarNums |-> Variable(n, target[n])] : target \in [VarNums -> 0..NumVars]}

ClosureTypes == {"start-search", "auto-analyze"}

InitClosure ==
  /\ store \in ClosureStores
  /\ collections = CollectionIds
  /\ \E first \in FirstNodes : nodes = <<first>>
  /\ styles = {}
  /\ host = NoHost
  /\ req = NoRequest
  /\ usage = {}
  /\ out = NoMessage
  /\ log = NoLog
  /\ Started

ClosureStep == ForStep \/ EndPass \/ FinishClosure

NextClosure ==
  \/ \E type \in ClosureTypes, c \in Requests : BeginClosure(type, c)
  \/ \E type \in ClosureTypes, c \in Requests : AnswerWithoutClosure(type, c)
  \/ ForStep
  \/ EndPass
  \/ FinishClosure

\* a handler that began is run to its end: nothing in it waits
SpecClosure == InitClosure /\ [][NextClosure]_vars /\ WF_vars(ClosureStep)

(***************************************************************************)
(* findUnusedVariables of the root build, one synchronous stretch at a     *)
(* time.  A batch is the slice [first, last] of the page's findAll() list. *)
(* processBatch has no await, so a batch is processed within the call that *)
(* starts it; what waits for a microtask is the rest of the async arrow    *)
(* function: the merge of the batch's ids and its progress message.        *)
(* proc.events records, in order, the batches processed and the timer      *)
(* pauses taken.                                                           *)
(***************************************************************************)

\* BATCH_CONFIG.size, scaled down from 1000 nodes
BATCH_CONFIG_size == 2

\* BATCH_CONFIG.maxParallelBatches
BATCH_CONFIG_maxParallelBatches == 4

\* the most nodes page 1 holds: one full group of batches and a partial one
MaxPageNodes == 9

\* nodes.slice(i, i + BATCH_CONFIG.size) for i = from, from + size, ...
RECURSIVE Slices(_, _)
Slices(length, from) ==
  IF from > length THEN <<>>
  ELSE LET last == IF from + BATCH_CONFIG_size - 1 < length
                   THEN from + BATCH_CONFIG_size - 1 ELSE length
       IN <<[first |-> from, last |-> last]>> \o Slices(length, from + BATCH_CONFIG_size)

\* the nodes of a batch of page number p
BatchNodes(p, batch) == SubSeq(FindAll(Pages[p]), batch.first, batch.last)

\* stats.nodesProcessed++ runs for every node processBatch reaches: all of the
\* batch, or up to the node that makes it throw
NodesReached(list) ==
  IF processBatchThrows(list)
  THEN CHOOSE k \in DOMAIN list :
         ReadThrows(list[k]) /\ \A j \in 1..(k - 1) : ~ReadThrows(list[j])
  ELSE Len(list)

RECURSIVE SumOver(_, _)
SumOver(Count(_), indices) ==
  IF indices = {} THEN 0
  ELSE LET k == CHOOSE x \in indices : TRUE
       IN Count(k) + SumOver(Count, indices \ {k})

BatchEvent(p, batch) == [kind |-> "batch", page |-> p, first |-> batch.first, last |-> batch.last]

\* await new Promise(resolve => setTimeout(resolve, BATCH_CONFIG.delay))
TimerEvent == [kind |-> "timer", page |-> 0, first |-> 0, last |-> 0]

\* the remaining promises are never awaited
AwaitsRest_never(batchPromises) == FALSE

\* if (batchPromises.length > 0) await Promise.all(batchPromises)
AwaitsRest(batchPromises) == Len(batchPromises) > 0

\* start-search up to the page loop: the variables of the scope are read and
\* there are some
BeginFind(c) ==
  /\ proc.pc \in {"idle", "done"}
  /\ readable
  /\ Len(getAllVariables(c)) > 0
  /\ req' = [NoRequest EXCEPT !.handler = "root", !.type = "start-search", !.collections = c]
  /\ proc' = [pc |-> "pages", page |-> 1, batches |-> <<>>, i |-> 1, batchPromises |-> <<>>,
              usedVariableIds |-> {}, nodesProcessed |-> 0, events |-> <<>>]
  /\ posted' = <<Progress, Progress>>
  /\ usage' = {}
  /\ out' = NoMessage
  /\ log' = NoLog
  /\ UNCHANGED <<store, collections, nodes, styles, host,
                 readable, variableCache, now, ui, inbox, running>>

\* a start-search that ends before the page loop
AnswerWithoutScan(c) ==
  /\ proc.pc \in {"idle", "done"}
  /\ ~readable \/ Len(getAllVariables(c)) = 0
  /\ StartSearchRoot(c)
  /\ proc' = NoProc
  /\ UNCHANGED <<readable, variableCache, now, ui, inbox, running>>

\* for (const page of pages): the page's nodes are cut into batches, or the
\* pages are through
NextPage ==
  /\ proc.pc = "pages"
  /\ proc' = IF proc.page <= Len(Pages)
             THEN [proc EXCEPT !.pc = "groups",
                               !.batches = Slices(Len(FindAll(Pages[proc.page])), 1),
                               !.i = 1,
                               !.batchPromises = <<>>]
             ELSE [proc EXCEPT !.pc = "filter"]
  /\ UNCHANGED <<store, collections, nodes, styles, host, req, usage, out, log,
                 posted, readable, variableCache, now, ui, inbox, running>>

\* one turn of the loop over groups, up to its await: currentBatches.map starts
\* every batch of the group, each processed at once, and the promises are pushed
StartGroup ==
  /\ proc.pc = "groups"
  /\ proc.i <= Len(proc.batches)
  /\ LET last == IF proc.i + BATCH_CONFIG_maxParallelBatches - 1 < Len(proc.batches)
                 THEN proc.i + BATCH_CONFIG_maxParallelBatches - 1 ELSE Len(proc.batches)
         Nodes(k) == BatchNodes(proc.page, proc.batches[k])
         Reached(k) == NodesReached(Nodes(k))
         promises == [j \in 1..(last - proc.i + 1) |->
                        [batch |-> proc.i + j - 1,
                         state |-> IF processBatchThrows(Nodes(proc.i + j - 1))
                                   THEN "rejected" ELSE "pending"]]
         started == [j \in 1..(last - proc.i + 1) |->
                       BatchEvent(proc.page, proc.batches[proc.i + j - 1])]
         full == Len(proc.batchPromises) + Len(promises) >= BATCH_CONFIG_maxParallelBatches
     IN proc' = [proc EXCEPT
                   !.batchPromises = @ \o promises,
                   !.nodesProcessed = @ + SumOver(Reached, proc.i..last),
                   !.events = @ \o started,
                   !.pc = IF full THEN "awaitGroup" ELSE "groups",
                   !.i = IF full THEN @ ELSE @ + BATCH_CONFIG_maxParallelBatches]
  /\ UNCHANGED <<store, collections, nodes, styles, host, req, usage, out, log,
                 posted, readable, variableCache, now, ui, inbox, running>>

\* the rest of one async arrow function, run while Promise.all is awaited: the
\* ids of its batch are merged and a progress message is posted
MergeBatch(k) ==
  /\ proc.pc \in {"awaitGroup", "awaitRest"}
  /\ k \in DOMAIN proc.batchPromises
  /\ proc.batchPromises[k].state = "pending"
  /\ proc' = [proc EXCEPT
                !.batchPromises[k].state = "merged",
                !.usedVariableIds =
                   @ \cup processBatch(BatchNodes(proc.page,
                                                  proc.batches[proc.batchPromises[k].batch]))]
  /\ posted' = Append(posted, Progress)
  /\ UNCHANGED <<store, collections, nodes, styles, host, req, usage, out, log,
                 readable, variableCache, now, ui, inbox, running>>

AllMerged == \A k \in DOMAIN proc.batchPromises : proc.batchPromises[k].state = "merged"

\* await Promise.all(batchPromises) of a full group resolved: the list is
\* emptied and the timer pause is taken
GroupAwaited ==
  /\ proc.pc = "awaitGroup"
  /\ AllMerged
  /\ proc' = [proc EXCEPT !.batchPromises = <<>>,
                          !.events = Append(@, TimerEvent),
                          !.i = @ + BATCH_CONFIG_maxParallelBatches,
                          !.pc = "groups"]
  /\ UNCHANGED <<store, collections, nodes, styles, host, req, usage, out, log,
                 posted, readable, variableCache, now, ui, inbox, running>>

\* Promise.all rejects with a batch that threw
BatchRejected ==
  /\ proc.pc \in {"awaitGroup", "awaitRest"}
  /\ \E k \in DOMAIN proc.batchPromises : proc.batchPromises[k].state = "rejected"
  /\ proc' = [proc EXCEPT !.pc = "catch"]
  /\ UNCHANGED <<store, collections, nodes, styles, host, req, usage, out, log,
                 posted, readable, variableCache, now, ui, inbox, running>>

\* the loop over groups is through: the remaining promises are awaited, or the
\* next page is taken
GroupsEnd ==
  /\ proc.pc = "groups"
  /\ proc.i > Len(proc.batches)
  /\ proc' = IF AwaitsRest(proc.batchPromises)
             THEN [proc EXCEPT !.pc = "awaitRest"]
             ELSE [proc EXCEPT !.pc = "pages", !.page = @ + 1]
  /\ UNCHANGED <<store, collections, nodes, styles, host, req, usage, out, log,
                 posted, readable, variableCache, now, ui, inbox, running>>

\* await Promise.all(batchPromises) after the loop resolved
RestAwaited ==
  /\ proc.pc = "awaitRest"
  /\ AllMerged
  /\ proc' = [proc EXCEPT !.batchPromises = <<>>, !.pc = "pages", !.page = @ + 1]
  /\ UNCHANGED <<store, collections, nodes, styles, host, req, usage, out, log,
                 posted, readable, variableCache, now, ui, inbox, running>>

\* after the pages: the unused variables are listed and the handler answers
FinishFind ==
  /\ proc.pc = "filter"
  /\ LET variables == getAllVariables(req.collections)
         Unused(v) == v.id \notin proc.usedVariableIds
         unusedVariables == SelectSeq(variables, Unused)
         answer == Complete(IdsOf(unusedVariables), Len(unusedVariables))
     IN /\ out' = answer
        /\ posted' = posted \o <<Progress, answer>>
  /\ usage' = proc.usedVariableIds
  /\ proc' = [proc EXCEPT !.pc = "done"]
  /\ UNCHANGED <<store, collections, nodes, styles, host, req, log,
                 readable, variableCache, now, ui, inbox, running>>

\* the catch of findUnusedVariables rethrows and the catch of the handler answers
FailFind ==
  /\ proc.pc = "catch"
  /\ out' = CompleteError
  /\ posted' = Append(posted, CompleteError)
  /\ usage' = {}
  /\ proc' = [proc EXCEPT !.pc = "done"]
  /\ UNCHANGED <<store, collections, nodes, styles, host, req, log,
                 readable, variableCache, now, ui, inbox, running>>

\* the nodes that stand out on page 1: one bound to variable 1, one that throws
MarkedNodes == {BoundNode(1, Alias(VarId(1))), Faulty(PlainNode(1), "node")}

\* page 1 holds up to MaxPageNodes nodes, at most one of them marked; page 2 is
\* empty or holds a node bound to variable 2, alone or after a plain node
BatchDocuments ==
  {[j \in 1..k |-> IF j = b THEN mark ELSE PlainNode(1)] \o second :
     k \in 0..MaxPageNodes, b \in 0..MaxPageNodes, mark \in MarkedNodes,
     second \in {<<>>, <<BoundNode(2, Alias(VarId(2)))>>,
                 <<PlainNode(2), PlainNode(2), BoundNode(2, Alias(VarId(2)))>>}}

InitBatch ==
  /\ store \in {<<>>, FullStore}
  /\ collections = CollectionIds
  /\ nodes \in BatchDocuments
  /\ styles = {}
  /\ host = NoHost
  /\ req = NoRequest
  /\ usage = {}
  /\ out = NoMessage
  /\ log = NoLog
  /\ Started

NextBatch ==
  \/ \E c \in Requests : BeginFind(c)
  \/ \E c \in Requests : AnswerWithoutScan(c)
  \/ NextPage
  \/ StartGroup
  \/ \E k \in 1..BATCH_CONFIG_maxParallelBatches : MergeBatch(k)
  \/ GroupAwaited
  \/ BatchRejected
  \/ GroupsEnd
  \/ RestAwaited
  \/ FinishFind
  \/ FailFind

SpecBatch == InitBatch /\ [][NextBatch]_vars

(***************************************************************************)
(* The scan of the root build, one call of checkVariableUsage at a time.   *)
(* The host's typings give an instance a ComponentNode as mainComponent;   *)
(* the documents here also hold the graphs those typings exclude, in which *)
(* the mainComponent of an instance is an instance again.  So that such a  *)
(* reference can lead back to its origin, mainComponent holds the position *)
(* in `nodes` of the node it refers to.  proc.stack holds the calls of     *)
(* checkVariableUsage that have not returned, the innermost last.          *)
(***************************************************************************)

\* how many calls of checkVariableUsage the engine's call stack takes
StackLimit == 4

\* how many top-level nodes a document of linked instances has
NumLinked == 3

\* an instance whose mainComponent is nodes[k]
LinkedInstance(page, k) ==
  [PlainNode(page) EXCEPT !.type = "INSTANCE", !.mainComponent = <<k>>]

\* node.type === 'INSTANCE' && node.mainComponent
HasMainComponent(nd) == nd.type = "INSTANCE" /\ nd.mainComponent # <<>>

\* a call of checkVariableUsage(nodes[k]) that is at its first statement
Call(k) == [node |-> k, entered |-> FALSE]

\* getTrulyUnusedVariables starts: scanNodes(page.children, usedVars)
BeginScan ==
  /\ proc.pc \in {"idle", "done"}
  /\ req' = [NoRequest EXCEPT !.handler = "root", !.type = "scan"]
  /\ proc' = [pc |-> "scanNodes", at |-> 1, own |-> FALSE, stack |-> <<>>, usedVars |-> {}]
  /\ usage' = {}
  /\ out' = NoMessage
  /\ UNCHANGED <<store, collections, nodes, styles, host, log,
                 posted, readable, variableCache, now, ui, inbox, running>>

\* scanNodes at node number proc.at: first the call on the mainComponent of an
\* instance, then the call on the node itself
ScanNode ==
  /\ proc.pc = "scanNodes"
  /\ proc.stack = <<>>
  /\ proc.at <= Len(nodes)
  /\ proc' = IF ~proc.own
             THEN [proc EXCEPT !.own = TRUE,
                               !.stack = IF HasMainComponent(nodes[proc.at])
                                         THEN <<Call(nodes[proc.at].mainComponent[1])>>
                                         ELSE <<>>]
             ELSE [proc EXCEPT !.own = FALSE, !.at = @ + 1, !.stack = <<Call(proc.at)>>]
  /\ UNCHANGED <<store, collections, nodes, styles, host, req, usage, out, log,
                 posted, readable, variableCache, now, ui, inbox, running>>

\* the innermost call is at its first statement and its node is an instance:
\* await checkVariableUsage(node.mainComponent, usedVars)
Recurse ==
  /\ proc.pc = "scanNodes"
  /\ proc.stack # <<>>
  /\ LET top == proc.stack[Len(proc.stack)]
     IN /\ ~top.entered
        /\ HasMainComponent(nodes[top.node])
        /\ Len(proc.stack) < StackLimit
        /\ proc' = [proc EXCEPT
                      !.stack = Append([@ EXCEPT ![Len(@)].entered = TRUE],
                                       Call(nodes[top.node].mainComponent[1]))]
  /\ UNCHANGED <<store, collections, nodes, styles, host, req, usage, out, log,
                 posted, readable, variableCache, now, ui, inbox, running>>

\* the same call when the engine's stack is used up: the engine raises an error
\* in the caller, whose catch logs it and returns, or it ends the plugin
Overflow(caught) ==
  /\ proc.pc = "scanNodes"
  /\ proc.stack # <<>>
  /\ LET top == proc.stack[Len(proc.stack)]
     IN /\ ~top.entered
        /\ HasMainComponent(nodes[top.node])
        /\ Len(proc.stack) >= StackLimit
  /\ proc' = IF caught THEN [proc EXCEPT !.stack = SubSeq(@, 1, Len(@) - 1)]
             ELSE [proc EXCEPT !.pc = "crashed", !.stack = <<>>]
  /\ UNCHANGED <<store, collections, nodes, styles, host, req, usage, out, log,
                 posted, readable, variableCache, now, ui, inbox, running>>

\* the innermost call has no inner call to make or is back from it: it reads the
\* bindings of its node and returns
Return ==
  /\ proc.pc = "scanNodes"
  /\ proc.stack # <<>>
  /\ LET top == proc.stack[Len(proc.stack)]
     IN /\ top.entered \/ ~HasMainComponent(nodes[top.node])
        /\ proc' = [proc EXCEPT
                      !.usedVars = @ \cup checkVariableUsageRoot(nodes[top.node]),
                      !.stack = SubSeq(@, 1, Len(@) - 1)]
  /\ UNCHANGED <<store, collections, nodes, styles, host, req, usage, out, log,
                 posted, readable, variableCache, now, ui, inbox, running>>

\* the pages are through: text styles, then allVariables.filter(...)
FinishScan ==
  /\ proc.pc = "scanNodes"
  /\ proc.stack = <<>>
  /\ proc.at > Len(nodes)
  /\ LET usedVars == proc.usedVars \cup textStyleUsage
         Unused(v) == v.id \notin usedVars
     IN /\ usage' = usedVars
        /\ out' = UnusedResult(IdsOf(SelectSeq(store, Unused)))
  /\ proc' = [proc EXCEPT !.pc = "done"]
  /\ UNCHANGED <<store, collections, nodes, styles, host, req, log,
                 posted, readable, variableCache, now, ui, inbox, running>>

\* a top-level node: a component whose fills are bound to variable 1 or to
\* nothing, or an instance of any top-level node, itself included
LinkedNodes ==
  {[PaintedNode(1, bindings) EXCEPT !.type = "COMPONENT"] : bindings \in {{}, {Alias(VarId(1))}}}
    \cup {LinkedInstance(1, k) : k \in 1..NumLinked}

InitLinked ==
  /\ store = FullStore
  /\ collections = CollectionIds
  /\ nodes \in [1..NumLinked -> LinkedNodes]
  /\ styles = {}
  /\ host = NoHost
  /\ req = NoRequest
  /\ usage = {}
  /\ out = NoMessage
  /\ log = NoLog
  /\ Started

NextLinked ==
  \/ BeginScan
  \/ ScanNode
  \/ Recurse
  \/ \E caught \in BOOLEAN : Overflow(caught)
  \/ Return
  \/ FinishScan

SpecLinked == InitLinked /\ [][NextLinked]_vars

(***************************************************************************)
(* Properties of the search                                                *)
(***************************************************************************)
\* the ids listed by the last answer
Listed == SeqRange(out.variables)

\* the last handler was start-search of build h
Searched(h) == req.handler = h /\ req.type = "start-search"

\* some node's boundVariables carry a VARIABLE_ALIAS binding to id
NodeBound(id) == \E i \in DOMAIN nodes : Alias(id) \in nodes[i].boundVariables

\* some node's styles map names a style whose boundVariables carry a
\* VARIABLE_ALIAS binding to id
StyleBound(id) ==
  \E i \in DOMAIN nodes : \E sid \in nodes[i].styles :
    \E s \in styles : s.id = sid /\ Alias(id) \in s.boundVariables

\* C1 as stated: after a root start-search without a collection filter, a
\* variable is listed exactly when it is in the store and no node carries a
\* VARIABLE_ALIAS binding to its id.
C1_AsStated ==
  (Searched("root") /\ req.collections.ids = {}) =>
    \A id \in AllIds : id \in Listed <=> (VariableExists(id) /\ ~NodeBound(id))

\* C1: after a root start-search without a collection filter, a variable is
\* listed exactly when it is in the store, no node carries a VARIABLE_ALIAS
\* binding to its id, and no node's styles map names a style that carries one.
C1_UnusedIffUnbound ==
  (Searched("root") /\ req.collections.ids = {}) =>
    \A id \in AllIds :
      id \in Listed <=> (VariableExists(id) /\ ~NodeBound(id) /\ ~StyleBound(id))

\* C1 witness: an unfiltered root search listed one variable and left out a
\* node-bound one and a style-bound one
C1_Witness ==
  /\ Searched("root") /\ req.collections.ids = {}
  /\ Listed # {}
  /\ \E id \in AllIds : VariableExists(id) /\ NodeBound(id) /\ id \notin Listed
  /\ \E id \in AllIds : VariableExists(id) /\ StyleBound(id) /\ ~NodeBound(id) /\ id \notin Listed

\* variable a holds an alias to variable b in some mode
HoldsAlias(a, b) == VariableExists(a) /\ AliasesTo(GetVariableById(a), b)

\* the document reaches id in any way a scanner looks for
Reached(id) == id \in usedVarIds

\* C2: after a sel_js start-search over all collections of a document where A
\* is bound on a node, A aliases B and B aliases C, the usage set holds A, B
\* and C and none of them is listed.
C2_ForwardChainUsed ==
  Searched("sel_js") /\ req.collections = Given(collections) =>
    \A a, b, c \in AllIds :
      (/\ Cardinality({a, b, c}) = 3
       /\ NodeBound(a) /\ HoldsAlias(a, b) /\ HoldsAlias(b, c) /\ VariableExists(c))
      => ({a, b, c} \subseteq usage /\ {a, b, c} \cap Listed = {})

\* C3: two pages, page 1 holding one rectangle bound to V1 and page 2 empty,
\* the store holding V1, V2 (an alias of V1) and V3: start-search with an
\* empty collections array answers with exactly V3 and totalVariables 1.
C3_EndToEnd ==
  (/\ req.type = "start-search" /\ req.collections = Given({})
   /\ nodes = <<BoundNode(1, Alias(VarId(1)))>>
   /\ store = <<Variable(1, 0), Variable(2, 1), Variable(3, 0)>>)
  => (out.type = "complete" /\ ~out.error /\ out.variables = <<VarId(3)>>
      /\ out.totalVariables = 1)

\* the request's collections field is an empty array or absent
Unfiltered == ~req.collections.given \/ req.collections.ids = {}

\* C5: a start-search whose collections field is an empty array or absent is
\* answered with a complete message that carries the variables and the stats
\* of an unfiltered search, not with an error.
C5_EmptyFilterIsNoFilter ==
  (req.type = "start-search" /\ Unfiltered) =>
    (/\ out.type = "complete" /\ ~out.error
     /\ \A id \in Listed : VariableExists(id)
     /\ \A i \in DOMAIN store : store[i].id \notin usage => store[i].id \in Listed)

\* id is a variable in the scope of the request
InScope(id) ==
  /\ VariableExists(id)
  /\ (req.collections.ids = {} \/ GetVariableById(id).variableCollectionId \in req.collections.ids)

\* C6: every entry of complete.variables is a variable in the request's scope
\* that is not in the final usage set; the list is empty when every variable in
\* scope is used.
C6_ListedAreUnused ==
  (req.type = "start-search" /\ out.type = "complete") =>
    \A id \in Listed : InScope(id) /\ id \notin usage

\* the last handler analysed the whole store: a start-search over every
\* collection, or print-unused
AnalysedAll ==
  \/ req.type = "start-search" /\ req.collections = Given(collections)
  \/ req.type = "print-unused"

\* C7: when A aliases B and B aliases A and the document reaches neither, the
\* analysis ends with a usage set holding neither and lists both as unused.
C7_UnboundCycleUnused ==
  (req.handler = "sel_js" /\ AnalysedAll) =>
    \A a, b \in AllIds :
      (a # b /\ HoldsAlias(a, b) /\ HoldsAlias(b, a) /\ ~Reached(a) /\ ~Reached(b))
      => ({a, b} \cap usage = {} /\ {a, b} \subseteq Listed)

\* C4: given a non-empty collection filter, every returned variable has its
\* variableCollectionId in the filter and every variable whose collection is in
\* the filter is kept in scope; none outside the filter is returned.
C4_FilterByCollectionId ==
  (/\ req.type = "filter" /\ req.options.collections # {}
   /\ req.options.types = {} /\ req.options.modes = {}) =>
    \A i \in DOMAIN store :
      store[i].id \in Listed <=> store[i].variableCollectionId \in req.options.collections

\* the two forms name the same variable
SameVariable(id, other) == id.n = other.n

\* the computation that produced the listed unused variables ran on `usage`
UnusedComputed ==
  \/ req.type = "filter-unused"
  \/ Searched("sel_js") /\ ~Unfiltered /\ out.totalVariables > 0

\* C8: the unused-set computation takes the raw and the prefixed form of an id
\* for the same id in both directions: a variable is listed as unused only if
\* neither form of its id is in the usage set.
C8_BothIdFormsMatch ==
  UnusedComputed =>
    \A id \in Listed : \A used \in usage : ~SameVariable(id, used)

\* C9: a delete-variables request for three existing targets where only the
\* remove of target 2 persistently fails still attempts target 3 and is
\* answered with success = true, stats.success = 2 and stats.errors = 1.
C9_FailureDoesNotStopLater ==
  [][(/\ req'.type = "delete-variables" /\ Len(req'.targets) = 3
      /\ \A i \in 1..3 : VariableExists(req'.targets[i])
      /\ host[req'.targets[1].n] = "ok" /\ host[req'.targets[2].n] # "ok"
      /\ host[req'.targets[3].n] = "ok")
     => (/\ req'.targets[3] \in SeqRange(log'.attempted)
         /\ out'.type = "delete-result" /\ out'.success
         /\ out'.nSuccess = 2 /\ out'.nErrors = 1)]_vars

\* a deletion was answered
DeleteAnswered == out.type \in {"delete-result", "batch-delete-result"}

\* C10: an id is counted as deleted only if the store no longer holds it when
\* the result is reported.
C10_CountedOnlyIfAbsent ==
  DeleteAnswered =>
    /\ \A id \in SeqRange(log.deletedIds) : ~VariableExists(id)
    /\ out.nSuccess <= Cardinality({i \in DOMAIN req.targets :
                                      FindByAnyForm(store, req.targets[i]) = NoId})

\* target i of the request about to be answered is in the store, in some form
TargetFound(targets, i) == FindByAnyForm(store, targets[i]) # NoId

\* target i can be deleted: the host removes it and no node binds it
TargetDeletable(targets, i) ==
  /\ TargetFound(targets, i)
  /\ host[targets[i].n] = "ok"
  /\ FindByAnyForm(store, targets[i]) \notin appliedVariablesMap

\* C11: a deletion target that is not in the store when its processing starts
\* is skipped: it is counted neither as a success nor as an error and the
\* request does not fail (the other targets of the request all being deletable).
C11_MissingTargetSkipped ==
  [][(/\ req'.type \in {"delete-variables", "batch-delete"}
      /\ \E i \in DOMAIN req'.targets : ~TargetFound(req'.targets, i)
      /\ \A i \in DOMAIN req'.targets :
           TargetFound(req'.targets, i) => TargetDeletable(req'.targets, i))
     => (/\ ~out'.error
         /\ out'.nErrors = 0
         /\ out'.nSuccess = Cardinality({i \in DOMAIN req'.targets : TargetFound(req'.targets, i)})
         /\ Len(log'.attempted) = out'.nSuccess)]_vars

\* C12: remove() is never called on a variable while a node still carries a
\* binding to it: whatever the deletion path removed was detached first.
C12_DetachedBeforeRemove ==
  req.type \in {"delete-variables", "batch-delete"} =>
    \A id \in SeqRange(log.attempted) : ~NodeBound(id)

\* how often x occurs in the sequence s
Count(s, x) == Cardinality({i \in DOMAIN s : s[i] = x})

\* the calls of remove() a host behaviour fails before it serves one
FailuresBefore(mode) ==
  CASE mode = "ok" -> 0
    [] mode = "second" -> 1
    [] mode = "third" -> 2
    [] OTHER -> maxRetries

\* the last request ran a retrying deletion
Retried(r) == r.type \in {"delete-unused", "delete-with-retry"}

\* C13: a retrying deletion calls remove() at most 3 times per target, never
\* again once a re-query found the target gone, leaves a target that failed
\* three times in the failed state (not in deletedIds, status 'error') and goes
\* on to the next target.
C13_AtMostThreeAttempts ==
  [][Retried(req') =>
       /\ \A n \in VarNums :
            LET id == VarId(n)
                calls == Count(log'.attempted, id)
            IN /\ calls <= 3
               /\ calls <= FailuresBefore(host[n]) + 1
               /\ id \in SeqRange(log'.deletedIds) => ~ExistsIn(store', id)
               /\ (calls > 0 /\ ExistsIn(store', id)) =>
                    /\ id \notin SeqRange(log'.deletedIds)
                    /\ req'.type = "delete-unused" => calls = 3
                    /\ req'.type = "delete-with-retry" => (out'.error /\ ~out'.success)
       /\ req'.type = "delete-unused" =>
            \A i \in DOMAIN req'.targets : Count(log'.attempted, req'.targets[i]) >= 1]_vars

\* C13 witness: a delete-unused whose first target failed three times and
\* stayed, and whose later target went after a second attempt
C13_Witness ==
  /\ req.type = "delete-unused" /\ Len(req.targets) >= 2
  /\ Count(log.attempted, req.targets[1]) = 3
  /\ VariableExists(req.targets[1])
  /\ req.targets[1] \notin SeqRange(log.deletedIds)
  /\ Count(log.attempted, req.targets[2]) = 2
  /\ req.targets[2] \in SeqRange(log.deletedIds)
  /\ ~VariableExists(req.targets[2])

\* the nodes of the page trees
PageNodes == UNION {SeqRange(FindAll(Pages[p])) : p \in DOMAIN Pages}

\* the last start-search got as far as scanning the document
Scanned ==
  /\ Len(getAllVariables(req.collections)) > 0
  /\ Searched("root") \/ (Searched("sel_js") /\ ~InvalidCollections(req.collections))

\* C14: when inspecting one node throws during a scan, every variable bound on
\* one of the other nodes is still in the usage set the scan ends with.
C14_FaultDoesNotAbortScan ==
  (Scanned /\ \E nd \in PageNodes : nd.fault # "none")
    => \A nd \in PageNodes :
         nd.fault = "none" => AliasIds(nd.boundVariables) \subseteq usage

\* the ids bound on the nodes of the forest `list` that lie `least` or more
\* levels below the node whose children, `depth` levels down, `list` holds
RECURSIVE BoundBelow(_, _, _)
BoundBelow(list, depth, least) ==
  IF list = <<>> THEN {}
  ELSE (IF depth >= least THEN AliasIds(Head(list).boundVariables) ELSE {})
         \cup BoundBelow(Head(list).children, depth + 1, least)
         \cup BoundBelow(Tail(list), depth, least)

\* C20: after the sel_js scan of the pages, a variable bound on a node five or
\* more levels below the main component of an instance on a page is in the
\* usage set.
C20_DeepComponentBindingUsed ==
  (Scanned /\ Searched("sel_js"))
    => \A nd \in PageNodes :
         nd.type = "INSTANCE" => BoundBelow(nd.mainComponent, 0, 5) \subseteq usage

\* C15: answering start-search or print-unused leaves every variable, every
\* collection and every existing node as it was, whatever the store holds.
C15_SearchIsReadOnly ==
  [][req'.type \in {"start-search", "print-unused"}
       => /\ store' = store
          /\ collections' = collections
          /\ Len(nodes') >= Len(nodes)
          /\ SubSeq(nodes', 1, Len(nodes)) = nodes]_vars

\* how many complete messages the last search handler posted
Completes == Cardinality({i \in DOMAIN posted : posted[i].type = "complete"})

\* C18: a start-search of the root or the sel_js build is answered by exactly one
\* complete message, whichever path the handler takes: a selection that is
\* missing or empty, no variable in scope, a failure, or a finished scan.
C18_ExactlyOneComplete ==
  (Searched("root") \/ Searched("sel_js"))
    => /\ Completes = 1
       /\ posted[Len(posted)] = out
       /\ out.type = "complete"

\* a sel_js search answered for a valid selection with no variable in scope
C18_Witness ==
  /\ Searched("sel_js")
  /\ readable /\ ~InvalidCollections(req.collections)
  /\ Len(getAllVariables(req.collections)) = 0
  /\ Completes = 1

\* C19: when the variable store does not answer, a search or a print-unused is
\* reported as failed and leaves no report in the document.
C19_UnreadableStoreIsFailure ==
  (~readable /\ req.type \in {"start-search", "print-unused"})
    => /\ out.error
       /\ \A i \in DOMAIN nodes : ~nodes[i].report

\* C16: a search answers what a first search on the same document and store
\* would answer: a variable bound on a node is not listed as unused, whatever
\* earlier searches found.
C16_SearchIsFresh ==
  [][req'.type = "find-unused" =>
       /\ out'.variables = IdsOf(findUnusedVariablesSelTs(req'.options, NoCache, now).unusedVariables)
       /\ \A i \in DOMAIN store :
            (\E nd \in PageNodes : \E id \in AliasIds(nd.boundVariables) :
               SameVariable(id, store[i].id))
              => store[i].id \notin SeqRange(out'.variables)]_vars

C21_PrintAgreesWithSearch ==
  (req.handler = "sel_js" /\ req.type = "print-unused")
    => Listed = SeqRange(SearchAnswer(Given(collections)).variables)

\* C23: after the closure of a sel_js start-search, every variable of the store
\* that holds an alias to an id of the usage set is in the usage set, whatever
\* collection it belongs to.
C23_ReferrersOfAnyCollection ==
  (Searched("sel_js") /\ ~InvalidCollections(req.collections)
     /\ Len(getAllVariables(req.collections)) > 0)
    => \A id \in usage : \A i \in DOMAIN store :
         (store[i].id # id /\ AliasesTo(store[i], id)) => store[i].id \in usage

\* C29: delete-unused of the root build hands safeDeleteVariables no variable
\* that a node of the document binds in its boundVariables, and removes none.
C29_BoundVariableNotDeleted ==
  (req.handler = "root" /\ req.type = "delete-unused")
    => \A i \in DOMAIN nodes : \A id \in AliasIds(nodes[i].boundVariables) :
         id \notin SeqRange(req.targets) /\ id \notin SeqRange(log.deletedIds)

\* the bindings of a node's bindable properties that point at other variables
OtherBindings(nd, variableId) == {b \in nd.fills : b.id # variableId}

\* a subtree keeps its bindings to other variables, and a node without a binding
\* to the variable is as it was
RECURSIVE DetachFrame(_, _, _)
DetachFrame(before, after, variableId) ==
  /\ OtherBindings(before, variableId) \subseteq after.fills
  /\ after.boundVariables = before.boundVariables
  /\ (\A b \in before.fills : b.id # variableId) => after.fills = before.fills
  /\ DOMAIN after.children = DOMAIN before.children
  /\ \A i \in DOMAIN before.children :
       DetachFrame(before.children[i], after.children[i], variableId)

\* C25: detachVariableFromAllNodes(V) leaves every binding to another variable
\* in place, on the nodes bound to V and on all others, and leaves a node
\* without a binding to V unchanged.
C25_DetachKeepsOtherBindings ==
  [][req'.type = "detach"
       => /\ DOMAIN nodes' = DOMAIN nodes
          /\ \A i \in DOMAIN nodes : DetachFrame(nodes[i], nodes'[i], req'.targets[1])]_vars

\* the age of a cache entry
Age(entry) == now - entry.lastCheck

\* whatever the cache holds, the entry getCachedVariableStatus returns for a
\* variable of the store is younger than CACHE_EXPIRATION, and it is the cached
\* one only if that one is
ServedWhileYoung ==
  \A i \in DOMAIN store :
    LET cached == variableCache[store[i].id.n]
        served == getCachedVariableStatus(variableCache, now, store[i])
    IN /\ Age(served) < CACHE_EXPIRATION
       /\ (cached.cached /\ Age(cached) >= CACHE_EXPIRATION)
            => served.lastCheck = now

\* cleanExpiredCache drops the entries older than CACHE_EXPIRATION and no other
CleanDropsTheOld ==
  LET cleaned == cleanExpiredCache(variableCache, now)
  IN \A n \in VarNums :
       IF variableCache[n].cached /\ Age(variableCache[n]) > CACHE_EXPIRATION
       THEN ~cleaned[n].cached
       ELSE cleaned[n] = variableCache[n]

\* a findUnusedVariables step leaves, for every variable it asked about, an
\* entry younger than CACHE_EXPIRATION, made during the step if the one before
\* was missing or had reached CACHE_EXPIRATION
FindStep == req'.type = "find-unused" /\ now' = now /\ nodes' = nodes

AskedAbout(n) ==
  \E v \in SeqRange(filterVariables(store, req'.options)) : v.id.n = n

RecomputedWhenOld ==
  FindStep =>
    \A n \in VarNums : AskedAbout(n) =>
      /\ variableCache'[n].cached
      /\ now - variableCache'[n].lastCheck < CACHE_EXPIRATION
      /\ (~variableCache[n].cached \/ Age(variableCache[n]) >= CACHE_EXPIRATION)
           => variableCache'[n].lastCheck = now

\* C30: getCachedVariableStatus serves a cached entry only while its age is
\* below CACHE_EXPIRATION and recomputes it otherwise, cleanExpiredCache removes
\* exactly the entries older than CACHE_EXPIRATION, and the cache is empty after
\* clear-cache.
C30_CacheExpires ==
  /\ [](ServedWhileYoung /\ CleanDropsTheOld)
  /\ [](req.type = "clear-cache" => variableCache = NoCache)
  /\ [][RecomputedWhenOld]_vars

\* findUnusedVariables has just made an entry, CACHE_EXPIRATION or more after
\* the plugin started, while another entry has reached the age CACHE_EXPIRATION:
\* cleanExpiredCache keeps that one and getCachedVariableStatus does not serve it
C30_Witness ==
  /\ req.type = "find-unused"
  /\ now >= CACHE_EXPIRATION
  /\ \E n \in VarNums : variableCache[n].cached /\ variableCache[n].lastCheck = now
  /\ \E n \in VarNums : variableCache[n].cached
                          /\ Age(variableCache[n]) = CACHE_EXPIRATION

\* a mode value of `other` is an alias whose id names the same variable as
\* variableId, the prefix of either id set aside
PointsAt(other, variableId) ==
  \E m \in DOMAIN other.valuesByMode :
    /\ other.valuesByMode[m].type = "VARIABLE_ALIAS"
    /\ StripPrefix(other.valuesByMode[m].id) = StripPrefix(variableId)

\* sel_ts: a variable asked about that another variable points at is found used
ReferenceFoundSelTs ==
  (req.handler = "sel_ts" /\ req.type = "find-unused")
    => \A v \in SeqRange(filterVariables(store, req.options)) :
         (\E i \in DOMAIN store : store[i].id # v.id /\ PointsAt(store[i], v.id))
           => variableCache[v.id.n].isUsed

\* sel_js: a variable of the consulted collections that points at an id of the
\* usage set is in the usage set
ReferenceFoundSelJs ==
  (Searched("sel_js") /\ ~InvalidCollections(req.collections)
     /\ Len(getAllVariables(req.collections)) > 0)
    => \A id \in usage :
         \A otherId \in UNION {VariableIdsOf(c) : c \in collectionsData(req.collections)} :
           (otherId # id /\ PointsAt(GetVariableById(otherId), id)) => otherId \in usage

\* C24: the resolver detects that a variable's alias value points at V whether
\* or not the alias id and whether or not V's id carries the 'VariableID:' prefix.
C24_ReferenceInAllForms == ReferenceFoundSelTs /\ ReferenceFoundSelJs

\* a further pass adds nothing: every variable of the consulted collections that
\* aliases an id of the set is in the set
ClosureFixedPoint ==
  \A id \in SeqRange(proc.transitiveUsedVars) :
    checkVariableReferences(id, collectionsData(req.collections))
      \subseteq SeqRange(proc.transitiveUsedVars)

\* C22: the closure loop of start-search and of auto-analyze ends on every
\* store, alias cycles and self-references included, and the set it ends with
\* is closed under 'is aliased by' over the consulted collections.
C22_ClosureTerminatesAtFixedPoint ==
  /\ (proc.pc = "for") ~> (proc.pc = "done")
  /\ [](proc.pc \in {"filter", "done"} => ClosureFixedPoint)
  /\ [](proc.pc = "done" => usage = SeqRange(proc.transitiveUsedVars))

\* the loop ended on a store where a scanned variable and another alias each
\* other, having added the other to what the scan found
C22_Witness ==
  /\ proc.pc = "done"
  /\ \E a \in usedVarIds, b \in usage \ usedVarIds :
       /\ a # b
       /\ AliasesTo(GetVariableById(a), b)
       /\ AliasesTo(GetVariableById(b), a)

\* the positions of proc.events that hold a processed batch
BatchEvents == {e \in DOMAIN proc.events : proc.events[e].kind = "batch"}

\* C26: between the processing of any two batches of a scan of the root build a
\* timer pause is taken.
C26_PauseBetweenBatches ==
  proc.pc # "idle"
    => \A a, b \in BatchEvents :
         a < b => \E t \in (a + 1)..(b - 1) : proc.events[t] = TimerEvent

\* the batches of the page at hand are consecutive slices of its findAll() list,
\* none empty, none longer than BATCH_CONFIG.size, together the whole list
BatchesPartitionPage ==
  LET length == Len(FindAll(Pages[proc.page]))
      batches == proc.batches
  IN /\ (length = 0) <=> (batches = <<>>)
     /\ batches # <<>> => batches[1].first = 1 /\ batches[Len(batches)].last = length
     /\ \A k \in DOMAIN batches :
          /\ batches[k].first <= batches[k].last
          /\ batches[k].last - batches[k].first + 1 <= BATCH_CONFIG_size
          /\ k > 1 => batches[k].first = batches[k - 1].last + 1

\* every node of every page lies in exactly one processed batch
EveryNodeOnce ==
  \A p \in DOMAIN Pages : \A j \in DOMAIN FindAll(Pages[p]) :
    Cardinality({e \in BatchEvents :
                   /\ proc.events[e].page = p
                   /\ proc.events[e].first <= j
                   /\ j <= proc.events[e].last}) = 1

TotalNodes ==
  LET NodesOf(p) == Len(FindAll(Pages[p])) IN SumOver(NodesOf, DOMAIN Pages)

\* the scan came through to the computation of the unused list
ScanThrough ==
  \/ proc.pc = "filter"
  \/ proc.pc = "done" /\ out.type = "complete" /\ ~out.error

\* C27: the batches of a page partition its findAll() list into consecutive
\* slices of at most BATCH_CONFIG.size nodes; when the unused list is computed
\* every node has been processed exactly once, no batch is still to be merged,
\* usedVariableIds holds the ids of every batch and stats.nodesProcessed is the
\* number of nodes of the document, in whatever order the batches were merged.
C27_BatchesCoverEveryNodeOnce ==
  /\ proc.pc \in {"groups", "awaitGroup", "awaitRest"} => BatchesPartitionPage
  /\ ScanThrough =>
       /\ EveryNodeOnce
       /\ proc.batchPromises = <<>>
       /\ proc.usedVariableIds = usedVariableIds
       /\ proc.nodesProcessed = TotalNodes

\* a scan came through on a document whose first page needed a full group of
\* batches and a partial one, and whose second page has nodes too
C27_Witness ==
  /\ proc.pc = "done" /\ out.type = "complete" /\ ~out.error
  /\ Len(FindAll(Pages[1])) > BATCH_CONFIG_size * BATCH_CONFIG_maxParallelBatches
  /\ Len(FindAll(Pages[2])) > BATCH_CONFIG_size
  /\ Cardinality(usage) = 2

\* C28: the recursion of checkVariableUsage through mainComponent ends by a
\* bound of its own, a depth limit or a visited set, also on documents whose
\* instances refer back to themselves: the scan never uses up the engine's call
\* stack and is never ended by it.
C28_RecursionEndsByItself ==
  proc.pc # "idle" => (Len(proc.stack) < StackLimit /\ proc.pc # "crashed")

====
